---------------------------- MODULE Spec2Model ----------------------------
(***************************************************************************)
(* A model of the simulation core of the armour-mayhem clone: the          *)
(* fixed-timestep GameLoop, the WeaponSystem state machine, the            *)
(* CollisionSystem dispatcher with the Engine's collision callbacks, and   *)
(* the Engine's per-tick pipeline over the entity registry.                *)
(*                                                                         *)
(* Numbers.  The source computes in IEEE doubles; the model computes in    *)
(* exact integers of scaled units, chosen so that every constant of the    *)
(* source is an integer:                                                   *)
(*   - time: 1/240 s   (FIXED_TIMESTEP = 4, MAX_FRAME_TIME = 60,           *)
(*     1/fireRate = 80, 240, 30, reloadTime = 360, 600, 480)               *)
(*   - length: 1/3600 pixel; velocity: length units per fixed timestep,    *)
(*     so that 1 pixel per second is 60 velocity units                     *)
(* Rounding error of the doubles is outside the model.                     *)
(***************************************************************************)
EXTENDS Integers, Sequences, FiniteSets, TLC

VARIABLES
    \* ---- GameLoop (src/src/engine/GameLoop.ts) ----
    isRunning,          \* GameLoop.isRunning
    lastFrameTime,      \* GameLoop.lastFrameTime
    accumulator,        \* GameLoop.accumulator
    animationFrameId,   \* GameLoop.animationFrameId, 0 for null
    now,                \* the host clock, performance.now() / 1000
    rafPending,         \* the host's pending requestAnimationFrame requests
    rafNext,            \* the id the host hands out next
    frameLog,           \* the callbacks the last run of loop() made, in order
    \* ---- WeaponSystem (src/unnamed/part_010) ----
    weaponStates,       \* WeaponSystem.weaponStates: owner id -> WeaponState
    wHist,              \* per owner, what happened since its state was created
    lastOp,             \* the last WeaponSystem call and what it returned
    \* ---- Engine, entities, CollisionSystem, ParticleSystem ----
    heap,               \* the objects: reference -> Player, Enemy or Projectile
    registry,           \* Engine.entities: the entries [id, ref] in insertion order
    nextEntityId,       \* Engine.nextEntityId
    isPaused,           \* Engine.isPaused
    pool,               \* ProjectilePool: pool (free), activeProjectiles, nextId
    particles,          \* ParticleSystem.particles
    platforms,          \* PhysicsSystem.platforms
    level,              \* LevelManager: currentLevel, player, enemies
    input,              \* InputManager: keys down, mouse button 0, mouse position
    clock,              \* updates and outside events so far
    tickLog             \* what the last update or detection pass did

loopVars == <<isRunning, lastFrameTime, accumulator, animationFrameId,
              now, rafPending, rafNext, frameLog>>
weaponVars == <<weaponStates, wHist, lastOp>>

engineVars == <<heap, registry, nextEntityId, isPaused, pool, particles,
                platforms, level, input, clock, tickLog>>

vars == <<loopVars, weaponVars, engineVars>>

\* What the calls of one component leave alone.
outsideLoop == <<weaponVars, engineVars>>
outsideWeapon == <<loopVars, engineVars>>
outsideCollision == <<loopVars, weaponVars>>

-----------------------------------------------------------------------------
(* Helpers *)

Min(a, b) == IF a < b THEN a ELSE b
Max(a, b) == IF a > b THEN a ELSE b

-----------------------------------------------------------------------------
(***************************************************************************)
(* GameLoop                                                                *)
(***************************************************************************)

\* Units of time per second (the model's clock resolution).
UnitsPerSecond == 4 * 60

FIXED_TIMESTEP == UnitsPerSecond \div 60          \* 1 / 60 s
MAX_FRAME_TIME == UnitsPerSecond \div 4           \* 0.25 s

\* Bounds of the GameLoop specification.
MaxTime == 76           \* the host clock stops advancing here
MaxFrames == 4          \* requestAnimationFrame calls explored
\* Time that may pass between two host events.
ElapsedSet == {3, 70}

UpdateCall == [call |-> "update", num |-> FIXED_TIMESTEP, den |-> 1]
RenderCall(acc) == [call |-> "render", num |-> acc, den |-> FIXED_TIMESTEP]

\* if (frameTime > MAX_FRAME_TIME) frameTime = MAX_FRAME_TIME
NoClampFrameTime(frameTime) == frameTime
ClampFrameTime(frameTime) ==
    IF frameTime > MAX_FRAME_TIME THEN MAX_FRAME_TIME ELSE frameTime

\* while (accumulator >= FIXED_TIMESTEP) { update(FIXED_TIMESTEP); accumulator -= FIXED_TIMESTEP }
RECURSIVE DrainStrict(_, _)
DrainStrict(acc, log) ==
    IF acc > FIXED_TIMESTEP
    THEN DrainStrict(acc - FIXED_TIMESTEP, Append(log, UpdateCall))
    ELSE [acc |-> acc, log |-> log]

RECURSIVE Drain(_, _)
Drain(acc, log) ==
    IF acc >= FIXED_TIMESTEP
    THEN Drain(acc - FIXED_TIMESTEP, Append(log, UpdateCall))
    ELSE [acc |-> acc, log |-> log]

\* The body of loop() once isRunning has been found true, entered with
\* lastFrameTime = last and accumulator = acc; `fired` is the request that
\* invoked it (0 when start() calls it directly).
LoopBody(last, acc, fired) ==
    LET frameTime == ClampFrameTime(now - last)
        d == Drain(acc + frameTime, <<>>)
    IN  /\ lastFrameTime' = now
        /\ accumulator' = d.acc
        /\ frameLog' = Append(d.log, RenderCall(d.acc))
        /\ animationFrameId' = rafNext
        /\ rafPending' = (rafPending \ {fired}) \cup {rafNext}
        /\ rafNext' = rafNext + 1

\* start()
Start ==
    /\ rafNext <= MaxFrames
    /\ IF isRunning
       THEN UNCHANGED loopVars
       ELSE /\ isRunning' = TRUE
            /\ LoopBody(now, 0, 0)
            /\ UNCHANGED now
    /\ UNCHANGED outsideLoop

\* stop()
Stop ==
    /\ isRunning' = FALSE
    /\ IF animationFrameId # 0
       THEN /\ rafPending' = rafPending \ {animationFrameId}
            /\ animationFrameId' = 0
       ELSE UNCHANGED <<rafPending, animationFrameId>>
    /\ UNCHANGED <<lastFrameTime, accumulator, now, rafNext, frameLog>>
    /\ UNCHANGED outsideLoop

\* A frame callback that does not look at isRunning
HostFrameUnguarded ==
    /\ rafNext <= MaxFrames
    /\ \E id \in rafPending :
          /\ LoopBody(lastFrameTime, accumulator, id)
          /\ UNCHANGED <<isRunning, now>>
    /\ UNCHANGED outsideLoop

\* The host runs a pending frame callback: loop()
HostFrame ==
    /\ rafNext <= MaxFrames
    /\ \E id \in rafPending :
          IF ~isRunning
          THEN /\ rafPending' = rafPending \ {id}
               /\ frameLog' = <<>>
               /\ UNCHANGED <<isRunning, lastFrameTime, accumulator,
                              animationFrameId, now, rafNext>>
          ELSE /\ LoopBody(lastFrameTime, accumulator, id)
               /\ UNCHANGED <<isRunning, now>>
    /\ UNCHANGED outsideLoop

\* The host runs a pending frame callback while the loop is running, and one
\* of its update callbacks calls stop(): stop() clears isRunning and cancels
\* the request animationFrameId names; the while loop, the render call and
\* the requestAnimationFrame at the end of loop() follow as in any frame
StopInUpdate ==
    /\ rafNext <= MaxFrames
    /\ isRunning
    /\ \E id \in rafPending :
          LET d == Drain(accumulator + ClampFrameTime(now - lastFrameTime), <<>>) IN
          /\ Len(d.log) >= 1
          /\ isRunning' = FALSE
          /\ lastFrameTime' = now
          /\ accumulator' = d.acc
          /\ frameLog' = Append(d.log, RenderCall(d.acc))
          /\ animationFrameId' = rafNext
          /\ rafPending' = (rafPending \ {id, animationFrameId}) \cup {rafNext}
          /\ rafNext' = rafNext + 1
          /\ UNCHANGED now
    /\ UNCHANGED outsideLoop

\* Wall-clock time passes between host events.
Advance ==
    \E e \in ElapsedSet :
        /\ now + e <= MaxTime
        /\ now' = now + e
        /\ UNCHANGED <<isRunning, lastFrameTime, accumulator, animationFrameId,
                       rafPending, rafNext, frameLog>>
        /\ UNCHANGED outsideLoop

InitLoop ==
    /\ isRunning = FALSE
    /\ lastFrameTime = 0
    /\ accumulator = 0
    /\ animationFrameId = 0
    /\ now = 0
    /\ rafPending = {}
    /\ rafNext = 1
    /\ frameLog = <<>>


-----------------------------------------------------------------------------
(***************************************************************************)
(* WeaponSystem                                                            *)
(***************************************************************************)

\* Weapon definitions.  fireRate is in shots per second, reloadTime in units
\* of time, spread in degrees.
WEAPON_PISTOL ==
    [name |-> "Pistol", damage |-> 25, fireRate |-> 3, magazineSize |-> 12,
     reloadTime |-> (3 * UnitsPerSecond) \div 2, projectileSpeed |-> 800,
     spread |-> 2, projectileCount |-> 1]

WEAPON_SHOTGUN ==
    [name |-> "Shotgun", damage |-> 15, fireRate |-> 1, magazineSize |-> 6,
     reloadTime |-> (5 * UnitsPerSecond) \div 2, projectileSpeed |-> 600,
     spread |-> 15, projectileCount |-> 6]

WEAPON_RIFLE ==
    [name |-> "Rifle", damage |-> 20, fireRate |-> 8, magazineSize |-> 30,
     reloadTime |-> 2 * UnitsPerSecond, projectileSpeed |-> 1000,
     spread |-> 3, projectileCount |-> 1]

ALL_WEAPONS == <<WEAPON_PISTOL, WEAPON_SHOTGUN, WEAPON_RIFLE>>

\* 1 / state.weapon.fireRate, in units of time
FireInterval(weapon) == UnitsPerSecond \div weapon.fireRate

\* The WeaponState that registerWeapon and switchWeapon create.
NewWeaponState(weapon) ==
    [weapon |-> weapon, currentAmmo |-> weapon.magazineSize,
     isReloading |-> FALSE, reloadTimer |-> 0, fireCooldown |-> 0]

\* Map.set(key, value)
MapSet(map, key, value) ==
    [k \in DOMAIN map \cup {key} |-> IF k = key THEN value ELSE map[k]]

\* Map.delete(key)
MapDelete(map, key) == [k \in DOMAIN map \ {key} |-> map[k]]

\* registerWeapon(entityId, weapon)
RegisterWeapon(ws, entityId, weapon) == MapSet(ws, entityId, NewWeaponState(weapon))

\* switchWeapon(entityId, newWeapon)
SwitchWeaponKeepAmmo(ws, entityId, newWeapon) ==
    MapSet(ws, entityId,
           IF entityId \in DOMAIN ws
           THEN [NewWeaponState(newWeapon) EXCEPT
                    !.currentAmmo = ws[entityId].currentAmmo]
           ELSE NewWeaponState(newWeapon))
SwitchWeaponKeepReload(ws, entityId, newWeapon) ==
    MapSet(ws, entityId,
           IF entityId \in DOMAIN ws
           THEN [NewWeaponState(newWeapon) EXCEPT
                    !.isReloading = ws[entityId].isReloading,
                    !.reloadTimer = ws[entityId].reloadTimer]
           ELSE NewWeaponState(newWeapon))
SwitchWeapon(ws, entityId, newWeapon) == MapSet(ws, entityId, NewWeaponState(newWeapon))

\* unregisterWeapon(entityId)
UnregisterWeapon(ws, entityId) == MapDelete(ws, entityId)

\* The body of update(dt) for one state: the cooldown, then the reload timer.
UpdateCooldown(state, dt) ==
    IF state.fireCooldown > 0
    THEN [state EXCEPT !.fireCooldown = Max(0, state.fireCooldown - dt)]
    ELSE state

UpdateReloadLate(state, dt) ==
    IF state.isReloading
    THEN IF state.reloadTimer - dt < 0
         THEN [state EXCEPT !.isReloading = FALSE,
                            !.currentAmmo = state.weapon.magazineSize,
                            !.reloadTimer = 0]
         ELSE [state EXCEPT !.reloadTimer = state.reloadTimer - dt]
    ELSE state

UpdateReload(state, dt) ==
    IF state.isReloading
    THEN IF state.reloadTimer - dt <= 0
         THEN [state EXCEPT !.isReloading = FALSE,
                            !.currentAmmo = state.weapon.magazineSize,
                            !.reloadTimer = 0]
         ELSE [state EXCEPT !.reloadTimer = state.reloadTimer - dt]
    ELSE state

UpdateWeaponState(state, dt) == UpdateReload(UpdateCooldown(state, dt), dt)

\* update(dt)
WeaponUpdate(ws, dt) == [id \in DOMAIN ws |-> UpdateWeaponState(ws[id], dt)]

\* startReload(entityId): the value returned, and the state it leaves.
CanStartReload(state) ==
    ~(state.isReloading \/ state.currentAmmo = state.weapon.magazineSize)

BeginReloadAlways(state) ==
    [state EXCEPT !.isReloading = TRUE, !.reloadTimer = state.weapon.reloadTime]
BeginReload(state) ==
    IF CanStartReload(state)
    THEN [state EXCEPT !.isReloading = TRUE, !.reloadTimer = state.weapon.reloadTime]
    ELSE state

StartReloadReturns(ws, entityId) ==
    entityId \in DOMAIN ws /\ CanStartReload(ws[entityId])

StartReload(ws, entityId) ==
    IF entityId \in DOMAIN ws
    THEN [ws EXCEPT ![entityId] = BeginReload(ws[entityId])]
    ELSE ws

\* fire(): "Check if can fire"
FireBlockedNoCooldown(state) ==
    state.isReloading \/ state.currentAmmo <= 0
FireBlocked(state) ==
    state.isReloading \/ state.fireCooldown > 0 \/ state.currentAmmo <= 0

\* fire(): consume ammo, set the cooldown, auto-reload on an empty magazine.
ConsumeRoundNoReload(state) ==
    [state EXCEPT !.currentAmmo = state.currentAmmo - 1,
                  !.fireCooldown = FireInterval(state.weapon)]
ConsumeRound(state) ==
    LET s == [state EXCEPT !.currentAmmo = state.currentAmmo - 1,
                           !.fireCooldown = FireInterval(state.weapon)]
    IN  IF s.currentAmmo = 0 THEN BeginReload(s) ELSE s

\* Math.random() as an input: RandomSet holds the numerators of the draws
\* explored, over the denominator RandomDen.
RandomDen == 2
RandomSet == 0 .. RandomDen - 1

\* The spread of pellet i (0-based), in tenths of a degree:
\* (i / (count - 1) - 0.5) * spread for several pellets,
\* (Math.random() - 0.5) * spread for one.
SpreadAngle(weapon, i, rnd) ==
    IF weapon.projectileCount > 1
    THEN (weapon.spread * 10 * (2 * i - (weapon.projectileCount - 1)))
            \div (2 * (weapon.projectileCount - 1))
    ELSE (weapon.spread * 10 * (2 * rnd - RandomDen)) \div (2 * RandomDen)

\* The projectiles fire() returns.  A direction is held as the direction
\* given (its angle is atan2(y, x)) and the angle added to it, in tenths of
\* a degree.
FireBatch(weapon, position, angle, rnd) ==
    [i \in 1 .. weapon.projectileCount |->
        [position |-> position,
         direction |-> [base |-> angle,
                        spread |-> SpreadAngle(weapon, i - 1, rnd)],
         damage |-> weapon.damage,
         speed |-> weapon.projectileSpeed]]

\* fire(entityId, position, direction): the states it leaves and its result.
Fire(ws, entityId, position, angle, rnd) ==
    IF entityId \notin DOMAIN ws THEN [ws |-> ws, batch |-> <<>>]
    ELSE IF FireBlocked(ws[entityId]) THEN [ws |-> ws, batch |-> <<>>]
    ELSE [ws |-> [ws EXCEPT ![entityId] = ConsumeRound(ws[entityId])],
          batch |-> FireBatch(ws[entityId].weapon, position, angle, rnd)]

(***************************************************************************)
(* The WeaponSystem specification: the calls of the class, for the owners  *)
(* in WeaponOwners, with update always given the fixed timestep.  wHist    *)
(* and lastOp record history; they are read by the claims only.            *)
(***************************************************************************)

WeaponOwners == {1}
AimAngles == {0, 1800}

NoHist ==
    [since |-> -1,          \* update time since the last non-empty fire, -1: none
     shots |-> 0,           \* non-empty fires since the state was created
     fresh |-> TRUE,        \* no reload other than the one the last round starts
     reloadKind |-> "none", \* how the current or last reload began
     reloadElapsed |-> 0,   \* update time since it began
     refills |-> 0,         \* times update refilled the magazine since it began
     refillAt |-> -1]       \* reloadElapsed at the refill

NoOp == [op |-> "none", owner |-> 0, batchLen |-> 0, gap |-> -1,
         drained |-> FALSE, wasReloading |-> FALSE, ok |-> FALSE,
         refilled |-> {},
         n |-> 0,              \* calls so far, counted by the calls specification
         def |-> << >>,        \* the weapon definition given to the call
         before |-> << >>]     \* weaponStates when the call was made

\* shots counts only while the state is fresh
Shots(h) == IF h.fresh THEN h.shots + 1 ELSE 0

InitWeapon ==
    /\ weaponStates = << >>
    /\ wHist = << >>
    /\ lastOp = NoOp

\* registerWeapon(id, weapon)
WRegister ==
    \E id \in WeaponOwners, i \in 1 .. Len(ALL_WEAPONS) :
        /\ weaponStates' = RegisterWeapon(weaponStates, id, ALL_WEAPONS[i])
        /\ wHist' = MapSet(wHist, id, NoHist)
        /\ lastOp' = [NoOp EXCEPT !.op = "register", !.owner = id]
        /\ UNCHANGED outsideWeapon

\* switchWeapon(id, weapon)
WSwitch ==
    \E id \in WeaponOwners, i \in 1 .. Len(ALL_WEAPONS) :
        /\ weaponStates' = SwitchWeapon(weaponStates, id, ALL_WEAPONS[i])
        /\ wHist' = MapSet(wHist, id, NoHist)
        /\ lastOp' = [NoOp EXCEPT !.op = "switch", !.owner = id]
        /\ UNCHANGED outsideWeapon

\* unregisterWeapon(id)
WUnregister ==
    \E id \in WeaponOwners :
        /\ weaponStates' = UnregisterWeapon(weaponStates, id)
        /\ wHist' = MapDelete(wHist, id)
        /\ lastOp' = [NoOp EXCEPT !.op = "unregister", !.owner = id]
        /\ UNCHANGED outsideWeapon

\* fire(id, position, direction)
WFire ==
    \E id \in WeaponOwners, angle \in AimAngles, rnd \in RandomSet :
        LET r == Fire(weaponStates, id, <<0, 0>>, angle, rnd)
            hit == Len(r.batch) > 0
            drained == hit /\ r.ws[id].currentAmmo = 0
            h == wHist[id]
        IN  /\ weaponStates' = r.ws
            /\ wHist' =
                 IF ~hit THEN wHist
                 ELSE [wHist EXCEPT ![id] =
                         IF drained
                         THEN [h EXCEPT !.since = 0, !.shots = Shots(h),
                                        !.reloadKind = "auto", !.reloadElapsed = 0,
                                        !.refills = 0, !.refillAt = -1]
                         ELSE [h EXCEPT !.since = 0, !.shots = Shots(h)]]
            /\ lastOp' =
                 [NoOp EXCEPT
                    !.op = "fire", !.owner = id, !.batchLen = Len(r.batch),
                    !.gap = IF id \in DOMAIN wHist THEN wHist[id].since ELSE -1,
                    !.drained = drained,
                    !.wasReloading = id \in DOMAIN weaponStates
                                       /\ weaponStates[id].isReloading,
                    !.ok = hit]
            /\ UNCHANGED outsideWeapon

\* startReload(id)
WStartReload ==
    \E id \in WeaponOwners :
        LET ok == StartReloadReturns(weaponStates, id) IN
        /\ weaponStates' = StartReload(weaponStates, id)
        /\ wHist' =
             IF ok
             THEN [wHist EXCEPT ![id] =
                     [@ EXCEPT !.fresh = FALSE, !.shots = 0, !.reloadKind = "manual",
                               !.reloadElapsed = 0, !.refills = 0, !.refillAt = -1]]
             ELSE wHist
        /\ lastOp' = [NoOp EXCEPT !.op = "startReload", !.owner = id, !.ok = ok]
        /\ UNCHANGED outsideWeapon

\* update(FIXED_TIMESTEP)
HistAfterUpdate(h, old, new, dt) ==
    LET elapsed == IF h.reloadKind = "none" THEN 0
                   ELSE Min(h.reloadElapsed + dt, old.weapon.reloadTime + dt)
        refilled == old.isReloading /\ ~new.isReloading
    IN  [h EXCEPT !.since = IF h.since < 0 THEN -1
                            ELSE Min(h.since + dt, FireInterval(old.weapon)),
                  !.reloadElapsed = elapsed,
                  !.refills = IF refilled THEN h.refills + 1 ELSE h.refills,
                  !.refillAt = IF refilled THEN elapsed ELSE h.refillAt,
                  !.shots = IF refilled THEN 0 ELSE h.shots,
                  !.fresh = h.fresh /\ ~refilled]

WUpdate ==
    /\ DOMAIN weaponStates # {}
    /\ weaponStates' = WeaponUpdate(weaponStates, FIXED_TIMESTEP)
    /\ wHist' = [id \in DOMAIN wHist |->
                    HistAfterUpdate(wHist[id], weaponStates[id],
                                    weaponStates'[id], FIXED_TIMESTEP)]
    /\ lastOp' = [NoOp EXCEPT !.op = "update",
                               !.refilled = {id \in DOMAIN weaponStates :
                                                weaponStates[id].isReloading
                                                /\ ~weaponStates'[id].isReloading}]
    /\ UNCHANGED outsideWeapon

-----------------------------------------------------------------------------
(***************************************************************************)
(* Entities, particles and the CollisionSystem                             *)
(*                                                                         *)
(* Objects live in `heap`, indexed by reference; an object's id is a field *)
(* that Engine.spawn reassigns.  Positions are in 1/3600 pixel and         *)
(* velocities in 1/3600 pixel per fixed timestep.  A particle keeps its    *)
(* lifetime only: its position, colour and size are read by render alone.  *)
(* Sounds are not modelled.                                                *)
(***************************************************************************)

UnitsPerPixel == 60 * 60

Vec2(x, y) == [x |-> x, y |-> y]

\* new Vec2(px, py), given in whole pixels
Pixels(px, py) == Vec2(px * UnitsPerPixel, py * UnitsPerPixel)

\* Rect and its derived edges
Rect(x, y, width, height) == [x |-> x, y |-> y, width |-> width, height |-> height]
Left(r) == r.x
Right(r) == r.x + r.width
Top(r) == r.y
Bottom(r) == r.y + r.height

\* Rect.overlaps(other)
Overlaps(a, b) ==
    /\ Left(a) < Right(b)
    /\ Right(a) > Left(b)
    /\ Top(a) < Bottom(b)
    /\ Bottom(a) > Top(b)

\* Rect.intersects(other): called by the systems; the same strict test
Intersects(a, b) == Overlaps(a, b)

\* Entity: constructor, getBounds, tags (a Set, kept in insertion order)
Entity(id, position, size) ==
    [id |-> id, position |-> position, velocity |-> Vec2(0, 0), size |-> size,
     active |-> TRUE, tags |-> <<>>]

GetBounds(e) == Rect(e.position.x, e.position.y, e.size.x, e.size.y)

SeqHas(s, x) == \E i \in 1 .. Len(s) : s[i] = x

HasTag(e, tag) == SeqHas(e.tags, tag)

AddTag(e, tag) ==
    IF HasTag(e, tag) THEN e ELSE [e EXCEPT !.tags = Append(e.tags, tag)]

RemoveTag(e, tag) ==
    [e EXCEPT !.tags = SelectSeq(e.tags, LAMBDA t : t # tag)]

Deactivate(e) == [e EXCEPT !.active = FALSE]
Activate(e) == [e EXCEPT !.active = TRUE]

\* new Player(id, position, inputManager, weaponSystem, weapons): the object
NewPlayer(id, position) ==
    AddTag(AddTag(
        [kind |-> "Player", health |-> 100, maxHealth |-> 100,
         moveSpeed |-> 300, jumpForce |-> 600,
         currentWeaponIndex |-> 0, aimAngle |-> Vec2(1, 0),
         jumpKeyPressed |-> FALSE, jumpTimer |-> 0]
        @@ Entity(id, position, Pixels(32, 48)), "player"), "physics")

\* new Enemy(id, position, weaponSystem, weapon, patrolPoints): the object
NewEnemy(id, position, patrolPoints) ==
    AddTag(AddTag(
        [kind |-> "Enemy", health |-> 100, maxHealth |-> 100,
         aiState |-> IF Len(patrolPoints) > 1 THEN "patrol" ELSE "idle",
         patrolPoints |-> IF Len(patrolPoints) > 0 THEN patrolPoints
                          ELSE <<position>>,
         sightRadius |-> 400, attackRange |-> 300,
         currentPatrolIndex |-> 0, attackCooldown |-> 0, patrolWaitTimer |-> 0]
        @@ Entity(id, position, Pixels(32, 48)), "enemy"), "physics")

\* direction.normalize().multiply(speed), kept as the pair it is made from
Velocity(direction, speed) == [direction |-> direction, speed |-> speed]

\* new Projectile(id, position, direction, owner, damage, speed, lifetime)
NewProjectile(id, position, direction, owner, damage, speed, lifetime) ==
    AddTag(
        [kind |-> "Projectile", owner |-> owner, damage |-> damage,
         speed |-> speed, lifetime |-> lifetime, maxLifetime |-> lifetime]
        @@ [Entity(id, position, Pixels(4, 4))
              EXCEPT !.velocity = Velocity(direction, speed)],
        "projectile")

\* Player.takeDamage(amount) and Enemy.takeDamage(amount)
TakeDamage(e, amount) ==
    IF e.health - amount <= 0
    THEN [e EXCEPT !.health = 0, !.active = FALSE]
    ELSE [e EXCEPT !.health = e.health - amount]

\* typeof e.takeDamage === 'function'
HasTakeDamage(e) == e.kind \in {"Player", "Enemy"}

(* ParticleSystem *)

\* POOL_SIZE is 200; the pool is scaled to this many particles
ParticlePoolSize == 30

NewParticle == [active |-> FALSE, lifetime |-> 0, maxLifetime |-> UnitsPerSecond]

NewParticleSystem == [i \in 1 .. ParticlePoolSize |-> NewParticle]

\* spawnParticle: the first inactive particle is reset, or nothing happens
SpawnParticle(ps, lifetime) ==
    LET free == {i \in 1 .. Len(ps) : ~ps[i].active} IN
    IF free = {} THEN ps
    ELSE LET i == CHOOSE k \in free : \A m \in free : k <= m
         IN  [ps EXCEPT ![i] = [active |-> TRUE, lifetime |-> lifetime,
                                maxLifetime |-> lifetime]]

RECURSIVE SpawnBurst(_, _, _)
SpawnBurst(ps, count, lifetime) ==
    IF count = 0 THEN ps
    ELSE SpawnBurst(SpawnParticle(ps, lifetime), count - 1, lifetime)

\* spawnMuzzleFlash: 8 particles of 0.2 s
SpawnMuzzleFlash(ps) == SpawnBurst(ps, 8, UnitsPerSecond \div 5)

\* spawnHitSparks: 12 particles of 0.3 + Math.random() * 0.2 s; one draw
\* serves the whole burst
SpawnHitSparks(ps, rnd) ==
    SpawnBurst(ps, 12, (3 * UnitsPerSecond) \div 10
                          + (rnd * UnitsPerSecond) \div (5 * RandomDen))

\* Particle.update(dt), for an active particle
ParticleAge(p, dt) ==
    IF p.lifetime - dt <= 0
    THEN [p EXCEPT !.lifetime = p.lifetime - dt, !.active = FALSE]
    ELSE [p EXCEPT !.lifetime = p.lifetime - dt]

\* ParticleSystem.update(dt)
ParticleUpdate(ps, dt) ==
    [i \in 1 .. Len(ps) |-> IF ps[i].active THEN ParticleAge(ps[i], dt) ELSE ps[i]]

(* CollisionSystem *)

\* tagA < tagB on the tags in use
TagOrder == <<"enemy", "grounded", "physics", "player", "projectile">>
TagRank(tag) == CHOOSE i \in 1 .. Len(TagOrder) : TagOrder[i] = tag
TagLess(a, b) == TagRank(a) < TagRank(b)

\* getCollisionKey(tagA, tagB)
GetCollisionKey(tagA, tagB) ==
    IF TagLess(tagA, tagB) THEN <<tagA, tagB>> ELSE <<tagB, tagA>>

\* onCollision(tagA, tagB, callback).  A callback is kept with the tags it
\* was registered with, which the code does not store.
OnCollision(callbacks, tagA, tagB, fn) ==
    LET key == GetCollisionKey(tagA, tagB)
        old == IF key \in DOMAIN callbacks THEN callbacks[key] ELSE <<>>
    IN  MapSet(callbacks, key, Append(old, [fn |-> fn, tagA |-> tagA, tagB |-> tagB]))

\* Engine.setupCollisionCallbacks
EngineCollisionCallbacks ==
    OnCollision(OnCollision(<< >>, "projectile", "player", "projectileHitsPlayer"),
                "projectile", "enemy", "projectileHitsEnemy")

EmptyLog ==
    [update |-> "none", phases |-> <<>>,
     before |-> [heap |-> << >>, registry |-> << >>], expired |-> <<>>,
     fired |-> <<>>, afterPhysics |-> << >>,
     atDetect |-> << >>, scanned |-> <<>>, contacts |-> <<>>,
     calls |-> <<>>, hits |-> <<>>]

\* The test both callbacks make on (projectile, target):
\* proj.owner !== target.id && typeof target.takeDamage === 'function'
HitAppliesAnyOwner(first, second) == HasTakeDamage(second)
HitApplies(first, second) ==
    /\ ("owner" \in DOMAIN first) => first.owner # second.id
    /\ HasTakeDamage(second)

\* One call callback(a, b) of a callback of Engine.setupCollisionCallbacks,
\* on the objects at references a and b.
InvokeCallback(w, cb, a, b, rnd) ==
    LET first == w.heap[a]
        second == w.heap[b]
        called == [w EXCEPT !.log.calls =
                     Append(@, [fn |-> cb.fn, tagA |-> cb.tagA, tagB |-> cb.tagB,
                                first |-> a, second |-> b])]
    IN  IF HitApplies(first, second)
        THEN [called EXCEPT
                !.heap = [@ EXCEPT ![b] = TakeDamage(second, first.damage),
                                   ![a] = Deactivate(first)],
                !.particles = SpawnHitSparks(@, rnd),
                !.log.hits = Append(@, [projectile |-> a, target |-> b,
                                        amount |-> first.damage])]
        ELSE called

RECURSIVE InvokeAll(_, _, _, _, _, _)
InvokeAll(w, cbs, k, a, b, rnd) ==
    IF k > Len(cbs) THEN w
    ELSE InvokeAll(InvokeCallback(w, cbs[k], a, b, rnd), cbs, k + 1, a, b, rnd)

\* The body of handleCollision for one pair of tags
HandleTagPair(w, callbacks, a, b, tagA, tagB, rnd) ==
    LET keyAB == GetCollisionKey(tagA, tagB)
        keyBA == GetCollisionKey(tagB, tagA)
        w1 == IF keyAB \in DOMAIN callbacks
              THEN InvokeAll(w, callbacks[keyAB], 1, a, b, rnd) ELSE w
    IN  IF keyAB # keyBA /\ keyBA \in DOMAIN callbacks
        THEN InvokeAll(w1, callbacks[keyBA], 1, b, a, rnd)
        ELSE w1

\* handleCollision(entityA, entityB)
RECURSIVE HandleCollisionFrom(_, _, _, _, _, _, _)
HandleCollisionFrom(w, callbacks, a, b, i, j, rnd) ==
    LET tagsA == w.heap[a].tags
        tagsB == w.heap[b].tags
    IN  IF i > Len(tagsA) THEN w
        ELSE IF j > Len(tagsB)
             THEN HandleCollisionFrom(w, callbacks, a, b, i + 1, 1, rnd)
             ELSE HandleCollisionFrom(
                      HandleTagPair(w, callbacks, a, b, tagsA[i], tagsB[j], rnd),
                      callbacks, a, b, i, j + 1, rnd)

HandleCollision(w, callbacks, a, b, rnd) ==
    HandleCollisionFrom(w, callbacks, a, b, 1, 1, rnd)

\* detectCollisions(entities): the inner loop from j, then the outer from i
RECURSIVE DetectInner(_, _, _, _, _, _)
DetectInner(w, callbacks, entities, i, j, rnd) ==
    IF j > Len(entities) THEN w
    ELSE LET a == entities[i]
             b == entities[j]
         IN  IF ~w.heap[b].active
             THEN DetectInner(w, callbacks, entities, i, j + 1, rnd)
             ELSE IF Intersects(GetBounds(w.heap[a]), GetBounds(w.heap[b]))
                  THEN DetectInner(
                           HandleCollision(
                               [w EXCEPT !.log.contacts = Append(@, <<a, b>>)],
                               callbacks, a, b, rnd),
                           callbacks, entities, i, j + 1, rnd)
                  ELSE DetectInner(w, callbacks, entities, i, j + 1, rnd)

RECURSIVE DetectOuter(_, _, _, _, _)
DetectOuter(w, callbacks, entities, i, rnd) ==
    IF i > Len(entities) THEN w
    ELSE IF ~w.heap[entities[i]].active
         THEN DetectOuter(w, callbacks, entities, i + 1, rnd)
         ELSE DetectOuter(DetectInner(w, callbacks, entities, i, i + 1, rnd),
                          callbacks, entities, i + 1, rnd)

DetectCollisions(w, callbacks, entities, rnd) ==
    DetectOuter(w, callbacks, entities, 1, rnd)

(***************************************************************************)
(* Engine, ProjectilePool, PhysicsSystem, Player, Enemy and LevelManager   *)
(*                                                                         *)
(* A world w is the state the operators below thread through one call:     *)
(* heap, registry, nextEntityId, weaponStates, pool, particles, the list   *)
(* activeEntities that Engine.update takes, and the log.  The input state, *)
(* the platforms and the LevelManager fields are read from the variables.  *)
(* A speed of 1 pixel per second is 60 velocity units.  A product with a   *)
(* friction factor is cut to a whole number of velocity units.             *)
(***************************************************************************)

TruncDiv(a, b) == IF a >= 0 THEN a \div b ELSE -((-a) \div b)

\* speed in pixels per second, as velocity units
PerSecond(v) == v * 60

\* acceleration * dt with the acceleration in pixels per second squared
AccelStep(accel, dt) == (PerSecond(accel) * dt) \div UnitsPerSecond

\* velocity * dt as a displacement
Displacement(v, dt) == TruncDiv(v * dt, FIXED_TIMESTEP)

Refs(reg) == [i \in 1 .. Len(reg) |-> reg[i].ref]

\* Engine.getAllEntities()
GetAllEntities(w) == SelectSeq(Refs(w.registry), LAMBDA r : w.heap[r].active)

\* Engine.spawn(entity), for the object at ref
Spawn(w, ref) ==
    [w EXCEPT !.heap[ref].id = w.nextEntityId,
              !.registry = Append(@, [id |-> w.nextEntityId, ref |-> ref]),
              !.nextEntityId = @ + 1]

\* Engine.despawn(id)
Despawn(w, id) ==
    [w EXCEPT !.registry = SelectSeq(@, LAMBDA entry : entry.id # id)]

\* A clear that starts the ids again
ClearRestarts(w) == [w EXCEPT !.registry = <<>>, !.nextEntityId = 1]

\* Engine.clear()
Clear(w) == [w EXCEPT !.registry = <<>>]

(* ProjectilePool *)

\* The pool starts with 100 projectiles; it is scaled to this many
InitialPoolSize == 2

\* The projectile preallocate and acquire construct
BlankProjectile(id) == NewProjectile(id, Vec2(0, 0), Vec2(1, 0), 0, 0, 0, 0)

RECURSIVE Preallocate(_, _)
Preallocate(w, count) ==
    IF count = 0 THEN w
    ELSE Preallocate(
             [w EXCEPT !.heap = Append(@, Deactivate(BlankProjectile(w.pool.nextId))),
                       !.pool.free = Append(@, Len(w.heap) + 1),
                       !.pool.nextId = @ + 1],
             count - 1)

\* Projectile.reset(position, direction, owner, damage, speed, lifetime)
ResetProjectile(e, position, direction, owner, damage, speed, lifetime) ==
    [e EXCEPT !.position = position, !.owner = owner, !.damage = damage,
              !.speed = speed, !.lifetime = lifetime, !.maxLifetime = lifetime,
              !.velocity = Velocity(direction, speed), !.active = TRUE]

\* The projectile acquire returns: the last of the free ones, or a new one
AcquiredRef(w) ==
    IF Len(w.pool.free) > 0 THEN w.pool.free[Len(w.pool.free)] ELSE Len(w.heap) + 1

\* ProjectilePool.acquire(...): the world it leaves
Acquire(w, position, direction, owner, damage, speed, lifetime) ==
    LET popped == Len(w.pool.free) > 0
        ref == AcquiredRef(w)
        w1 == IF popped
              THEN [w EXCEPT !.pool.free = SubSeq(@, 1, Len(@) - 1)]
              ELSE [w EXCEPT !.heap = Append(@, BlankProjectile(w.pool.nextId)),
                             !.pool.nextId = @ + 1]
    IN  [w1 EXCEPT !.heap[ref] = ResetProjectile(@, position, direction, owner,
                                                 damage, speed, lifetime),
                   !.pool.active = IF SeqHas(@, ref) THEN @ ELSE Append(@, ref)]

\* A release that does not give the instance back
ReleaseLeaks(w, ref) ==
    IF ~SeqHas(w.pool.active, ref) THEN w
    ELSE [w EXCEPT !.heap[ref] = Deactivate(@),
                   !.pool.active = SelectSeq(@, LAMBDA r : r # ref)]

\* ProjectilePool.release(projectile)
Release(w, ref) ==
    IF ~SeqHas(w.pool.active, ref) THEN w
    ELSE [w EXCEPT !.heap[ref] = Deactivate(@),
                   !.pool.active = SelectSeq(@, LAMBDA r : r # ref),
                   !.pool.free = Append(@, ref)]

RECURSIVE ReleaseAll(_, _, _)
ReleaseAll(w, refs, k) ==
    IF k > Len(refs) THEN w ELSE ReleaseAll(Release(w, refs[k]), refs, k + 1)

\* ProjectilePool.update()
PoolUpdate(w) ==
    ReleaseAll(w, SelectSeq(w.pool.active, LAMBDA r : ~w.heap[r].active), 1)

\* ProjectilePool.clear()
PoolClear(w) ==
    [w EXCEPT !.heap = [r \in DOMAIN @ |->
                           IF SeqHas(w.pool.active, r) THEN Deactivate(@[r]) ELSE @[r]],
              !.pool.free = @ \o w.pool.active,
              !.pool.active = << >>]

\* Engine.spawnProjectile(projectileData); acquire defaults lifetime to 3 s
SpawnProjectile(w, data) ==
    LET w1 == Acquire(w, data.position, data.direction, data.owner,
                      data.damage, data.speed, 3 * UnitsPerSecond)
    IN  [Spawn(w1, AcquiredRef(w)) EXCEPT !.particles = SpawnMuzzleFlash(@)]

\* The onShootCallback LevelManager sets: spawnProjectile for every
\* projectile of the batch, with owner set to the id of `owner`
RECURSIVE SpawnBatch(_, _, _, _)
SpawnBatch(w, batch, k, ownerRef) ==
    IF k > Len(batch) THEN w
    ELSE SpawnBatch(
             SpawnProjectile(w, [position |-> batch[k].position,
                                 direction |-> batch[k].direction,
                                 damage |-> batch[k].damage,
                                 speed |-> batch[k].speed,
                                 owner |-> w.heap[ownerRef].id]),
             batch, k + 1, ownerRef)

(* PhysicsSystem *)

GRAVITY == 980
GROUND_FRICTION == [num |-> 85, den |-> 100]
AIR_FRICTION == [num |-> 98, den |-> 100]

Scale(v, factor) == TruncDiv(v * factor.num, factor.den)

\* new Rect(platform.x, platform.y, platform.width, platform.height)
PlatformBounds(platform) ==
    Rect(platform.x * UnitsPerPixel, platform.y * UnitsPerPixel,
         platform.width * UnitsPerPixel, platform.height * UnitsPerPixel)

\* resolveCollision(entity, entityBounds, platformBounds)
ResolveCollision(e, eb, pb) ==
    LET overlapLeft == (eb.x + eb.width) - pb.x
        overlapRight == (pb.x + pb.width) - eb.x
        overlapTop == (eb.y + eb.height) - pb.y
        overlapBottom == (pb.y + pb.height) - eb.y
        minOverlapX == Min(overlapLeft, overlapRight)
        minOverlapY == Min(overlapTop, overlapBottom)
    IN  IF minOverlapX < minOverlapY
        THEN IF overlapLeft < overlapRight
             THEN [e EXCEPT !.position.x = pb.x - eb.width, !.velocity.x = 0]
             ELSE [e EXCEPT !.position.x = pb.x + pb.width, !.velocity.x = 0]
        ELSE IF overlapTop < overlapBottom
             THEN [e EXCEPT !.position.y = pb.y - eb.height, !.velocity.y = 0]
             ELSE [e EXCEPT !.position.y = pb.y + pb.height, !.velocity.y = 0]

\* A platform loop body whose one-way landing keeps the entity where the
\* move left it
AgainstPlatformNoSnap(s, eb, oldY, platform) ==
    LET pb == PlatformBounds(platform) IN
    IF ~Intersects(eb, pb) THEN s
    ELSE IF platform.oneWay
         THEN IF oldY + eb.height <= pb.y /\ s.e.velocity.y >= 0
              THEN [e |-> [s.e EXCEPT !.velocity.y = 0], grounded |-> TRUE]
              ELSE s
         ELSE LET e1 == ResolveCollision(s.e, eb, pb) IN
              [e |-> e1,
               grounded |-> s.grounded
                            \/ e1.position.y + eb.height <= pb.y + 5 * UnitsPerPixel]

\* A platform loop body whose one-way landing does not ask where the entity
\* was before the move
AgainstPlatformFromAnywhere(s, eb, oldY, platform) ==
    LET pb == PlatformBounds(platform) IN
    IF ~Intersects(eb, pb) THEN s
    ELSE IF platform.oneWay
         THEN IF s.e.velocity.y >= 0
              THEN [e |-> [s.e EXCEPT !.position.y = pb.y - eb.height,
                                      !.velocity.y = 0],
                    grounded |-> TRUE]
              ELSE s
         ELSE LET e1 == ResolveCollision(s.e, eb, pb) IN
              [e |-> e1,
               grounded |-> s.grounded
                            \/ e1.position.y + eb.height <= pb.y + 5 * UnitsPerPixel]

\* A platform loop body that leaves the loop's later platforms alone once a
\* platform has moved the entity
AgainstPlatformOnce(s, eb, oldY, platform) ==
    LET pb == PlatformBounds(platform) IN
    IF ~Intersects(eb, pb) \/ GetBounds(s.e) # eb THEN s
    ELSE IF platform.oneWay
         THEN IF oldY + eb.height <= pb.y /\ s.e.velocity.y >= 0
              THEN [e |-> [s.e EXCEPT !.position.y = pb.y - eb.height,
                                      !.velocity.y = 0],
                    grounded |-> TRUE]
              ELSE s
         ELSE LET e1 == ResolveCollision(s.e, eb, pb) IN
              [e |-> e1,
               grounded |-> s.grounded
                            \/ e1.position.y + eb.height <= pb.y + 5 * UnitsPerPixel]

\* The platform loop body: s holds the entity and the grounded flag
AgainstPlatform(s, eb, oldY, platform) ==
    LET pb == PlatformBounds(platform) IN
    IF ~Intersects(eb, pb) THEN s
    ELSE IF platform.oneWay
         THEN IF oldY + eb.height <= pb.y /\ s.e.velocity.y >= 0
              THEN [e |-> [s.e EXCEPT !.position.y = pb.y - eb.height,
                                      !.velocity.y = 0],
                    grounded |-> TRUE]
              ELSE s
         ELSE LET e1 == ResolveCollision(s.e, eb, pb) IN
              [e |-> e1,
               grounded |-> s.grounded
                            \/ e1.position.y + eb.height <= pb.y + 5 * UnitsPerPixel]

RECURSIVE AgainstPlatforms(_, _, _, _, _)
AgainstPlatforms(s, eb, oldY, plats, k) ==
    IF k > Len(plats) THEN s
    ELSE AgainstPlatforms(AgainstPlatform(s, eb, oldY, plats[k]), eb, oldY,
                          plats, k + 1)

\* Gravity, friction and the move
Integrate(e, dt) ==
    LET vy == e.velocity.y + AccelStep(GRAVITY, dt)
        vx == IF HasTag(e, "grounded") THEN Scale(e.velocity.x, GROUND_FRICTION)
              ELSE Scale(e.velocity.x, AIR_FRICTION)
    IN  [e EXCEPT !.velocity = Vec2(vx, vy),
                  !.position = Vec2(e.position.x + Displacement(vx, dt),
                                    e.position.y + Displacement(vy, dt))]

\* The body of PhysicsSystem.update for one entity with the physics tag
PhysicsStep(e, plats, dt) ==
    LET oldY == e.position.y
        moved == Integrate(e, dt)
        s == AgainstPlatforms([e |-> moved, grounded |-> FALSE], GetBounds(moved),
                              oldY, plats, 1)
    IN  IF s.grounded THEN AddTag(s.e, "grounded") ELSE RemoveTag(s.e, "grounded")

\* PhysicsSystem.update(entities, dt)
RECURSIVE PhysicsUpdate(_, _, _, _, _)
PhysicsUpdate(hp, entities, k, plats, dt) ==
    IF k > Len(entities) THEN hp
    ELSE LET r == entities[k] IN
         PhysicsUpdate(
             IF HasTag(hp[r], "physics")
             THEN [hp EXCEPT ![r] = PhysicsStep(hp[r], plats, dt)]
             ELSE hp,
             entities, k + 1, plats, dt)


(* InputManager *)

NoInput == [keys |-> {}, prev |-> {}, mouseDown |-> FALSE, mousePos |-> Vec2(0, 0)]

\* isKeyDown(key), isMouseButtonDown(0), getMousePosition()
IsKeyDown(key) == key \in input.keys
IsMouseButtonDown == input.mouseDown
GetMousePosition == input.mousePos

\* isKeyPressed(key) and updateKeyStates(): the key went down since the last
\* updateKeyStates
IsKeyPressed(key) == key \in input.keys /\ key \notin input.prev
UpdateKeyStates(inp) == [inp EXCEPT !.prev = inp.keys]

(* Player *)

ACCELERATION == 2000
MAX_MOVE_SPEED == 300
MAX_JUMP_TIME == (3 * UnitsPerSecond) \div 10

Center(e) == Vec2(e.position.x + e.size.x \div 2, e.position.y + e.size.y \div 2)

\* Player.handleMovement(dt)
HandleMovement(e, dt) ==
    LET moveLeft == IsKeyDown("a")
        moveRight == IsKeyDown("d")
    IN  IF moveLeft /\ ~moveRight
        THEN [e EXCEPT !.velocity.x =
                 Max(e.velocity.x - AccelStep(ACCELERATION, dt),
                     -PerSecond(MAX_MOVE_SPEED))]
        ELSE IF moveRight /\ ~moveLeft
        THEN [e EXCEPT !.velocity.x =
                 Min(e.velocity.x + AccelStep(ACCELERATION, dt),
                     PerSecond(MAX_MOVE_SPEED))]
        ELSE e

\* Player.handleJump(dt)
HandleJump(e, dt) ==
    LET jumpKey == IsKeyDown(" ")
        isGrounded == HasTag(e, "grounded")
    IN  IF jumpKey /\ ~e.jumpKeyPressed /\ isGrounded
        THEN RemoveTag([e EXCEPT !.velocity.y = -PerSecond(e.jumpForce),
                                 !.jumpKeyPressed = TRUE,
                                 !.jumpTimer = 0], "grounded")
        ELSE IF jumpKey /\ e.jumpKeyPressed /\ e.jumpTimer < MAX_JUMP_TIME
        THEN [e EXCEPT !.jumpTimer = e.jumpTimer + dt,
                       !.velocity.y = e.velocity.y - AccelStep(e.jumpForce, dt) \div 2]
        ELSE IF ~jumpKey
        THEN [e EXCEPT !.jumpKeyPressed = FALSE, !.jumpTimer = 0]
        ELSE e

\* Player.handleAiming(): aimAngle = atan2(dy, dx), kept as the pair (dx, dy)
HandleAiming(e) ==
    [e EXCEPT !.aimAngle = Vec2(GetMousePosition.x - Center(e).x,
                                GetMousePosition.y - Center(e).y)]

\* Player.shoot()
Shoot(w, ref, rnd) ==
    LET e == w.heap[ref]
        r == Fire(w.weaponStates, e.id, Center(e), e.aimAngle, rnd)
        w1 == [w EXCEPT !.weaponStates = r.ws]
    IN  IF Len(r.batch) > 0
        THEN SpawnBatch([w1 EXCEPT !.log.fired = Append(@, e.id)],
                        r.batch, 1, w.level.player)
        ELSE w1

\* Player.handleShooting()
HandleShooting(w, ref, rnd) == IF IsMouseButtonDown THEN Shoot(w, ref, rnd) ELSE w

\* Player.swapWeapon(), with weapons = ALL_WEAPONS
SwapWeapon(w, ref) ==
    LET e == w.heap[ref]
        index == (e.currentWeaponIndex + 1) % Len(ALL_WEAPONS)
    IN  IF Len(ALL_WEAPONS) <= 1 THEN w
        ELSE [w EXCEPT !.heap[ref].currentWeaponIndex = index,
                       !.weaponStates = SwitchWeapon(@, e.id, ALL_WEAPONS[index + 1])]

\* Player.handleWeaponSwap()
HandleWeaponSwap(w, ref) == IF IsKeyDown("f") THEN SwapWeapon(w, ref) ELSE w

\* Player.update(dt)
PlayerUpdate(w, ref, dt, rnd) ==
    LET moved == HandleAiming(HandleJump(HandleMovement(w.heap[ref], dt), dt))
    IN  HandleWeaponSwap(HandleShooting([w EXCEPT !.heap[ref] = moved], ref, rnd), ref)

\* Enemy.update(dt)
EnemyUpdate(e, dt) ==
    IF e.attackCooldown > 0 THEN [e EXCEPT !.attackCooldown = @ - dt] ELSE e

\* A projectile that counts its lifetime down and stays active
ProjectileUpdateNoExpiry(e, dt) == [e EXCEPT !.lifetime = e.lifetime - dt]

\* Projectile.update(dt)
ProjectileUpdate(e, dt) ==
    IF e.lifetime - dt <= 0
    THEN [e EXCEPT !.lifetime = e.lifetime - dt, !.active = FALSE]
    ELSE [e EXCEPT !.lifetime = e.lifetime - dt]

\* entity.update(dt)
EntityUpdate(w, ref, dt, rnd) ==
    CASE w.heap[ref].kind = "Player" -> PlayerUpdate(w, ref, dt, rnd)
      [] w.heap[ref].kind = "Enemy" ->
            [w EXCEPT !.heap[ref] = EnemyUpdate(@, dt)]
      [] w.heap[ref].kind = "Projectile" ->
            [w EXCEPT !.heap[ref] = ProjectileUpdate(@, dt),
                      !.log.expired = IF ProjectileUpdate(w.heap[ref], dt).active
                                      THEN @ ELSE Append(@, ref)]

(* Engine.update *)

\* for (const entity of this.entities.values()) if (entity.active) entity.update(dt):
\* entries added during the loop are visited too
RECURSIVE UpdateEntities(_, _, _, _)
UpdateEntities(w, k, dt, rnd) ==
    IF k > Len(w.registry) THEN w
    ELSE LET ref == w.registry[k].ref IN
         UpdateEntities(IF w.heap[ref].active THEN EntityUpdate(w, ref, dt, rnd) ELSE w,
                        k + 1, dt, rnd)

\* The sweep: delete the entries of inactive entities
NoSweep(w) == w
Sweep(w) ==
    [w EXCEPT !.registry = SelectSeq(@, LAMBDA entry : w.heap[entry.ref].active)]

\* The steps of a non-paused update, in the order of the code.  "entities" ends
\* by taking activeEntities = getAllEntities().
EnginePhasesCollideFirst ==
    <<"entities", "collisions", "physics", "weapons", "particles", "pool", "sweep">>
EnginePhases ==
    <<"entities", "physics", "weapons", "particles", "pool", "collisions", "sweep">>

RunPhase(w, phase, dt, rnd) ==
    CASE phase = "entities" ->
            LET w1 == UpdateEntities(w, 1, dt, rnd)
            IN  [w1 EXCEPT !.activeEntities = GetAllEntities(w1)]
      [] phase = "physics" ->
            LET hp == PhysicsUpdate(w.heap, w.activeEntities, 1, w.platforms, dt)
            IN  [w EXCEPT !.heap = hp, !.log.afterPhysics = hp]
      [] phase = "weapons" -> [w EXCEPT !.weaponStates = WeaponUpdate(@, dt)]
      [] phase = "particles" -> [w EXCEPT !.particles = ParticleUpdate(@, dt)]
      [] phase = "pool" -> PoolUpdate(w)
      [] phase = "collisions" ->
            DetectCollisions([w EXCEPT !.log.atDetect = w.heap,
                                       !.log.scanned = w.activeEntities],
                             EngineCollisionCallbacks, w.activeEntities, rnd)
      [] phase = "sweep" -> Sweep(w)

RECURSIVE RunPhases(_, _, _, _, _)
RunPhases(w, phases, k, dt, rnd) ==
    IF k > Len(phases) THEN w
    ELSE RunPhases(RunPhase([w EXCEPT !.log.phases = Append(@, phases[k])],
                            phases[k], dt, rnd),
                   phases, k + 1, dt, rnd)

(* LevelManager *)

NoLevel == [platforms |-> <<>>, enemySpawns |-> <<>>, playerSpawn |-> Vec2(0, 0),
            loaded |-> FALSE]

NoLevelManager == [currentLevel |-> NoLevel, player |-> 0, enemies |-> <<>>]

\* LevelManager.spawnPlayer(position)
SpawnPlayer(w, position) ==
    LET ref == Len(w.heap) + 1
        w1 == [w EXCEPT !.heap = Append(@, NewPlayer(0, position)),
                        !.weaponStates = RegisterWeapon(@, 0, ALL_WEAPONS[1]),
                        !.level.player = ref]
        w2 == Spawn(w1, ref)
    IN  [w2 EXCEPT !.weaponStates = RegisterWeapon(@, w2.heap[ref].id, ALL_WEAPONS[1])]

\* LevelManager.spawnEnemies(spawns)
RECURSIVE SpawnEnemies(_, _, _)
SpawnEnemies(w, spawns, k) ==
    IF k > Len(spawns) THEN w
    ELSE LET ref == Len(w.heap) + 1
             points == [i \in 1 .. Len(spawns[k].patrolPoints) |->
                           Pixels(spawns[k].patrolPoints[i].x,
                                  spawns[k].patrolPoints[i].y)]
             w1 == [w EXCEPT
                      !.heap = Append(@, NewEnemy(0, Pixels(spawns[k].x, spawns[k].y),
                                                  points)),
                      !.weaponStates = RegisterWeapon(@, 0, WEAPON_PISTOL),
                      !.level.enemies = Append(@, ref)]
             w2 == Spawn(w1, ref)
         IN  SpawnEnemies(
                 [w2 EXCEPT !.weaponStates =
                              RegisterWeapon(@, w2.heap[ref].id, WEAPON_PISTOL)],
                 spawns, k + 1)

\* LevelManager.unloadLevel()
UnloadLevel(w) ==
    [Clear(w) EXCEPT !.platforms = <<>>, !.level = NoLevelManager]

\* LevelManager.loadLevel(level, levelIndex)
LoadLevel(w, lvl) ==
    LET w1 == [UnloadLevel(w) EXCEPT !.level.currentLevel = lvl,
                                     !.platforms = lvl.platforms]
        w2 == SpawnPlayer(w1, Pixels(lvl.playerSpawn.x, lvl.playerSpawn.y))
    IN  SpawnEnemies(w2, lvl.enemySpawns, 1)

(* Enemy AI *)

MOVE_SPEED == 150
ATTACK_COOLDOWN_TIME == 2 * UnitsPerSecond
PATROL_WAIT_TIME == UnitsPerSecond

\* The sign of Math.sqrt(dx * dx + dy * dy) - radius, for dx and dy in
\* position units and a radius in pixels: dx * dx + dy * dy - radius^2 is
\* whole * UnitsPerPixel^2 + part with 0 <= part < UnitsPerPixel^2, and no
\* product leaves the 32-bit range.
DistanceSign(dx, dy, radius) ==
    LET a == dx \div UnitsPerPixel
        b == dx % UnitsPerPixel
        c == dy \div UnitsPerPixel
        d == dy % UnitsPerPixel
        cross == 2 * (a * b + c * d)
        low == UnitsPerPixel * (cross % UnitsPerPixel) + b * b + d * d
        whole == a * a + c * c + cross \div UnitsPerPixel
                    + low \div (UnitsPerPixel * UnitsPerPixel) - radius * radius
        part == low % (UnitsPerPixel * UnitsPerPixel)
    IN  IF whole < 0 THEN -1 ELSE IF whole = 0 /\ part = 0 THEN 0 ELSE 1

\* this.position.distance(other) compared with a radius in pixels
DistanceWithin(p, q, radius) == DistanceSign(p.x - q.x, p.y - q.y, radius) <= 0
DistanceBelow(p, q, radius) == DistanceSign(p.x - q.x, p.y - q.y, radius) < 0
\* distance > radius * 1.5
DistanceBeyondHalfMore(p, q, radius) ==
    DistanceSign(2 * (p.x - q.x), 2 * (p.y - q.y), 3 * radius) > 0

\* The largest r in lo .. hi with r * r <= n
RECURSIVE RootBetween(_, _, _)
RootBetween(n, lo, hi) ==
    IF lo >= hi THEN lo
    ELSE LET mid == (lo + hi + 1) \div 2
         IN  IF mid * mid <= n THEN RootBetween(n, mid, hi)
             ELSE RootBetween(n, lo, mid - 1)

\* target.subtract(from).normalize().x * speed as a velocity: exact when the
\* two points are level or above one another, and otherwise rounded, with
\* the length taken to a sixteenth of a pixel from quarter pixels.
TowardsX(from, target, speed) ==
    LET dx == target.x - from.x
        dy == target.y - from.y
        qx == TruncDiv(dx, UnitsPerPixel \div 4)
        qy == TruncDiv(dy, UnitsPerPixel \div 4)
        len == RootBetween(16 * (qx * qx + qy * qy), 0, 46340)
    IN  IF dx = 0 THEN 0
        ELSE IF dy = 0 THEN (IF dx > 0 THEN PerSecond(speed) ELSE -PerSecond(speed))
        ELSE IF len = 0 THEN 0
        ELSE TruncDiv(PerSecond(speed) * 4 * qx, len)

\* Enemy.doPatrol(dt)
DoPatrol(e, dt) ==
    IF Len(e.patrolPoints) <= 1 THEN e
    ELSE LET targetPoint == e.patrolPoints[e.currentPatrolIndex + 1] IN
         IF DistanceBelow(e.position, targetPoint, 10)
         THEN IF e.patrolWaitTimer + dt >= PATROL_WAIT_TIME
              THEN [e EXCEPT !.velocity.x = 0,
                             !.currentPatrolIndex = (@ + 1) % Len(e.patrolPoints),
                             !.patrolWaitTimer = 0]
              ELSE [e EXCEPT !.velocity.x = 0, !.patrolWaitTimer = @ + dt]
         ELSE [e EXCEPT !.velocity.x = TowardsX(e.position, targetPoint, MOVE_SPEED)]

\* Enemy.doChase(player)
DoChase(e, player) ==
    [e EXCEPT !.velocity.x = TowardsX(e.position, player.position, MOVE_SPEED)]

\* Enemy.shoot(player), with the callback LevelManager.spawnEnemies sets
EnemyShoot(w, ref, player, rnd) ==
    LET e == w.heap[ref]
        r == Fire(w.weaponStates, e.id, Center(e),
                  Vec2(Center(player).x - Center(e).x,
                       Center(player).y - Center(e).y), rnd)
        w1 == [w EXCEPT !.weaponStates = r.ws]
    IN  IF Len(r.batch) > 0
        THEN SpawnBatch([w1 EXCEPT !.log.fired = Append(@, e.id)], r.batch, 1, ref)
        ELSE w1

\* An attack that does not restart its cooldown
DoAttackNoReset(w, ref, player, rnd) ==
    LET stopped == [w EXCEPT !.heap[ref].velocity.x = 0] IN
    IF w.heap[ref].attackCooldown <= 0
    THEN EnemyShoot(stopped, ref, player, rnd)
    ELSE stopped

\* Enemy.doAttack(player)
DoAttack(w, ref, player, rnd) ==
    LET stopped == [w EXCEPT !.heap[ref].velocity.x = 0] IN
    IF w.heap[ref].attackCooldown <= 0
    THEN [EnemyShoot(stopped, ref, player, rnd) EXCEPT
             !.heap[ref].attackCooldown = ATTACK_COOLDOWN_TIME]
    ELSE stopped

\* A state machine that leaves Chase as soon as the player is out of sight
UpdateAINoHysteresis(w, ref, playerRef, dt, rnd) ==
    LET e == w.heap[ref]
        player == w.heap[playerRef]
        sighted == DistanceWithin(e.position, player.position, e.sightRadius)
        inRange == DistanceWithin(e.position, player.position, e.attackRange)
        become(state) == [w EXCEPT !.heap[ref].aiState = state]
    IN  CASE e.aiState = "idle" ->
                IF sighted THEN become("chase")
                ELSE IF Len(e.patrolPoints) > 1 THEN become("patrol")
                ELSE w
          [] e.aiState = "patrol" ->
                IF sighted THEN become("chase")
                ELSE [w EXCEPT !.heap[ref] = DoPatrol(e, dt)]
          [] e.aiState = "chase" ->
                IF ~sighted THEN become("patrol")
                ELSE IF inRange THEN become("attack")
                ELSE [w EXCEPT !.heap[ref] = DoChase(e, player)]
          [] e.aiState = "attack" ->
                IF ~inRange THEN become("chase")
                ELSE DoAttack(w, ref, player, rnd)

\* A state machine that goes on to the next case after a transition
UpdateAIFallThrough(w, ref, playerRef, dt, rnd) ==
    LET e == w.heap[ref]
        player == w.heap[playerRef]
        sighted == DistanceWithin(e.position, player.position, e.sightRadius)
        lost == DistanceBeyondHalfMore(e.position, player.position, e.sightRadius)
        inRange == DistanceWithin(e.position, player.position, e.attackRange)
        become(state) == [w EXCEPT !.heap[ref].aiState = state]
    IN  CASE e.aiState = "idle" ->
                IF sighted THEN (IF inRange THEN become("attack") ELSE become("chase"))
                ELSE IF Len(e.patrolPoints) > 1 THEN become("patrol")
                ELSE w
          [] e.aiState = "patrol" ->
                IF sighted THEN (IF inRange THEN become("attack") ELSE become("chase"))
                ELSE [w EXCEPT !.heap[ref] = DoPatrol(e, dt)]
          [] e.aiState = "chase" ->
                IF lost THEN become("patrol")
                ELSE IF inRange THEN become("attack")
                ELSE [w EXCEPT !.heap[ref] = DoChase(e, player)]
          [] e.aiState = "attack" ->
                IF ~inRange THEN become("chase")
                ELSE DoAttack(w, ref, player, rnd)

\* Enemy.updateAI(dt, player)
UpdateAI(w, ref, playerRef, dt, rnd) ==
    LET e == w.heap[ref]
        player == w.heap[playerRef]
        sighted == DistanceWithin(e.position, player.position, e.sightRadius)
        lost == DistanceBeyondHalfMore(e.position, player.position, e.sightRadius)
        inRange == DistanceWithin(e.position, player.position, e.attackRange)
        become(state) == [w EXCEPT !.heap[ref].aiState = state]
    IN  CASE e.aiState = "idle" ->
                IF sighted THEN become("chase")
                ELSE IF Len(e.patrolPoints) > 1 THEN become("patrol")
                ELSE w
          [] e.aiState = "patrol" ->
                IF sighted THEN become("chase")
                ELSE [w EXCEPT !.heap[ref] = DoPatrol(e, dt)]
          [] e.aiState = "chase" ->
                IF lost THEN become("patrol")
                ELSE IF inRange THEN become("attack")
                ELSE [w EXCEPT !.heap[ref] = DoChase(e, player)]
          [] e.aiState = "attack" ->
                IF ~inRange THEN become("chase")
                ELSE DoAttack(w, ref, player, rnd)

\* LevelManager.update(dt): the loop over this.enemies
RECURSIVE UpdateEnemiesAI(_, _, _, _)
UpdateEnemiesAI(w, k, dt, rnd) ==
    IF k > Len(w.level.enemies) THEN w
    ELSE LET ref == w.level.enemies[k]
         IN  UpdateEnemiesAI(IF w.heap[ref].active
                             THEN UpdateAI(w, ref, w.level.player, dt, rnd)
                             ELSE w,
                             k + 1, dt, rnd)

\* LevelManager.update(dt); the two notifications change no state here
LevelUpdate(w, dt, rnd) ==
    IF w.level.player # 0 /\ w.heap[w.level.player].active
    THEN UpdateEnemiesAI(w, 1, dt, rnd)
    ELSE w

\* LevelManager.respawnPlayer()
RespawnPlayer(w) ==
    IF ~w.level.currentLevel.loaded THEN w
    ELSE LET w1 == IF w.level.player # 0
                   THEN Despawn(w, w.heap[w.level.player].id) ELSE w
         IN  SpawnPlayer(w1, Pixels(w.level.currentLevel.playerSpawn.x,
                                    w.level.currentLevel.playerSpawn.y))

\* new Engine(canvas): the fields of the Engine and of its systems
NewEngine ==
    Preallocate(
        [heap |-> << >>, registry |-> << >>, nextEntityId |-> 1,
         weaponStates |-> << >>,
         pool |-> [free |-> << >>, active |-> << >>, nextId |-> 10000],
         particles |-> NewParticleSystem, platforms |-> << >>,
         level |-> NoLevelManager, activeEntities |-> << >>, log |-> EmptyLog],
        InitialPoolSize)

\* The world the variables hold
EngineWorld ==
    [heap |-> heap, registry |-> registry, nextEntityId |-> nextEntityId,
     weaponStates |-> weaponStates, pool |-> pool, particles |-> particles,
     platforms |-> platforms, level |-> level, activeEntities |-> << >>,
     log |-> EmptyLog]

WorldIs(w) ==
    /\ heap = w.heap
    /\ registry = w.registry
    /\ nextEntityId = w.nextEntityId
    /\ weaponStates = w.weaponStates
    /\ pool = w.pool
    /\ particles = w.particles
    /\ platforms = w.platforms
    /\ level = w.level
    /\ tickLog = w.log

WorldBecomes(w) ==
    /\ heap' = w.heap
    /\ registry' = w.registry
    /\ nextEntityId' = w.nextEntityId
    /\ weaponStates' = w.weaponStates
    /\ pool' = w.pool
    /\ particles' = w.particles
    /\ platforms' = w.platforms
    /\ level' = w.level
    /\ tickLog' = w.log


(***************************************************************************)
(* The CollisionSystem specification: detectCollisions, with the callbacks *)
(* the Engine registers, over a list of up to four entities standing in    *)
(* any order.  tickLog records what the pass did.                          *)
(***************************************************************************)

World == [heap |-> heap, particles |-> particles, log |-> EmptyLog]

\* Injective sequences of references of the lengths given
Orders(refs, lens) ==
    UNION {{s \in [1 .. n -> refs] : \A i, j \in 1 .. n : s[i] = s[j] => i = j}
             : n \in lens}

\* A projectile as ProjectilePool.acquire leaves it, fired from `weapon`
FiredProjectile(id, position, owner, weapon) ==
    NewProjectile(id, position, Vec2(1, 0), owner, weapon.damage,
                  weapon.projectileSpeed, 3 * UnitsPerSecond)

InitCollision ==
    \E hp \in {100, 20}, he \in {100, 25}, xe \in {0, 100},
       x1 \in {16, 32, 116}, o1 \in {1, 2}, w1 \in {WEAPON_PISTOL, WEAPON_SHOTGUN},
       x2 \in {16, 116}, o2 \in {1, 2} :
        /\ heap = <<[NewPlayer(1, Pixels(0, 0)) EXCEPT !.health = hp],
                    [NewEnemy(2, Pixels(xe, 0), <<>>) EXCEPT !.health = he],
                    FiredProjectile(3, Pixels(x1, 24), o1, w1),
                    FiredProjectile(4, Pixels(x2, 24), o2, WEAPON_SHOTGUN)>>
        /\ \E order \in Orders(1 .. 4, 2 .. 4) :
              registry = [i \in 1 .. Len(order) |->
                             [id |-> heap[order[i]].id, ref |-> order[i]]]
        /\ particles = NewParticleSystem
        /\ tickLog = EmptyLog
        /\ nextEntityId = 5
        /\ pool = [free |-> << >>, active |-> <<3, 4>>, nextId |-> 10000]
        /\ platforms = << >>
        /\ level = NoLevelManager
        /\ isPaused = FALSE
        /\ input = NoInput
        /\ clock = [ticks |-> 0, events |-> 0]

\* collisionSystem.detectCollisions(entities)
CDetect ==
    \E rnd \in RandomSet :
        LET entities == Refs(registry)
            w == DetectCollisions(
                     [World EXCEPT !.log.atDetect = heap, !.log.scanned = entities],
                     EngineCollisionCallbacks, entities, rnd)
        IN  /\ heap' = w.heap
            /\ particles' = w.particles
            /\ tickLog' = w.log
            /\ UNCHANGED <<registry, nextEntityId, isPaused, pool, platforms,
                           level, input, clock>>
            /\ UNCHANGED outsideCollision

InitEngineIdle ==
    /\ WorldIs(NewEngine)
    /\ isPaused = FALSE
    /\ input = NoInput
    /\ clock = [ticks |-> 0, events |-> 0]

-----------------------------------------------------------------------------
(* Specifications *)

NextLoop == Start \/ Stop \/ HostFrame \/ StopInUpdate \/ Advance

InitComponents == InitLoop /\ InitWeapon /\ InitEngineIdle

InitScene == InitLoop /\ InitWeapon /\ InitCollision

SpecCollision == InitScene /\ [][CDetect]_vars

SpecLoop == InitComponents /\ [][NextLoop]_vars

NextWeapon ==
    WRegister \/ WSwitch \/ WUnregister \/ WFire \/ WStartReload \/ WUpdate

SpecWeapon == InitComponents /\ [][NextWeapon]_vars

(***************************************************************************)
(* The WeaponSystem calls specification: up to MaxCalls calls of the class *)
(* for the owners in CallOwners, from an empty map.  lastOp holds the call *)
(* made last, what it returned and the map it was made on.                 *)
(***************************************************************************)

MaxCalls == 7
CallOwners == {1, 2}

Called(ws, op) ==
    /\ lastOp.n < MaxCalls
    /\ weaponStates' = ws
    /\ lastOp' = [op EXCEPT !.n = lastOp.n + 1, !.before = weaponStates]
    /\ UNCHANGED <<wHist, outsideWeapon>>

\* registerWeapon(id, weapon)
CallRegister ==
    \E id \in CallOwners, i \in 1 .. Len(ALL_WEAPONS) :
        Called(RegisterWeapon(weaponStates, id, ALL_WEAPONS[i]),
               [NoOp EXCEPT !.op = "register", !.owner = id,
                            !.def = ALL_WEAPONS[i]])

\* switchWeapon(id, weapon)
CallSwitch ==
    \E id \in CallOwners, i \in 1 .. Len(ALL_WEAPONS) :
        Called(SwitchWeapon(weaponStates, id, ALL_WEAPONS[i]),
               [NoOp EXCEPT !.op = "switch", !.owner = id,
                            !.def = ALL_WEAPONS[i]])

\* unregisterWeapon(id)
CallUnregister ==
    \E id \in CallOwners :
        Called(UnregisterWeapon(weaponStates, id),
               [NoOp EXCEPT !.op = "unregister", !.owner = id])

\* fire(id, position, direction)
CallFire ==
    \E id \in CallOwners, rnd \in RandomSet :
        LET r == Fire(weaponStates, id, <<0, 0>>, 0, rnd) IN
        Called(r.ws, [NoOp EXCEPT !.op = "fire", !.owner = id,
                                  !.batchLen = Len(r.batch),
                                  !.ok = Len(r.batch) > 0])

\* startReload(id)
CallStartReload ==
    \E id \in CallOwners :
        Called(StartReload(weaponStates, id),
               [NoOp EXCEPT !.op = "startReload", !.owner = id,
                            !.ok = StartReloadReturns(weaponStates, id)])

\* update(FIXED_TIMESTEP)
CallUpdate ==
    Called(WeaponUpdate(weaponStates, FIXED_TIMESTEP), [NoOp EXCEPT !.op = "update"])

NextCalls ==
    \/ CallRegister
    \/ CallSwitch
    \/ CallUnregister
    \/ CallFire
    \/ CallStartReload
    \/ CallUpdate

SpecCalls == InitComponents /\ [][NextCalls]_vars


-----------------------------------------------------------------------------
(***************************************************************************)
(* The Engine specification: the state after new Engine(canvas) and        *)
(* LevelManager.loadLevel(LEVEL_1), then the fixed-timestep updates and    *)
(* the input events, the pause requests and the respawns between them.     *)
(* tickLog describes the update that returned last.                        *)
(***************************************************************************)

\* Input events are drawn during the first MaxTicks updates, at most
\* MaxEvents of them; a run that has every key and the button released by
\* then is followed for LongTicks updates, past the 3 s a projectile lives.
MaxTicks == 3
MaxEvents == 3
LongTicks == 182

Keys == {"a", "d", " ", "f", "escape"}
MousePositions == {Pixels(0, 0), Pixels(400, 724)}

\* data/levels.ts, LEVEL_1
LEVEL_1 ==
    [loaded |-> TRUE,
     playerSpawn |-> [x |-> 100, y |-> 700],
     platforms |->
        <<[x |-> 0, y |-> 800, width |-> 1600, height |-> 100, oneWay |-> FALSE],
          [x |-> 300, y |-> 650, width |-> 200, height |-> 20, oneWay |-> TRUE],
          [x |-> 700, y |-> 650, width |-> 200, height |-> 20, oneWay |-> TRUE],
          [x |-> 1100, y |-> 650, width |-> 200, height |-> 20, oneWay |-> TRUE],
          [x |-> 150, y |-> 500, width |-> 150, height |-> 20, oneWay |-> TRUE],
          [x |-> 500, y |-> 500, width |-> 200, height |-> 20, oneWay |-> TRUE],
          [x |-> 900, y |-> 500, width |-> 200, height |-> 20, oneWay |-> TRUE],
          [x |-> 1300, y |-> 500, width |-> 150, height |-> 20, oneWay |-> TRUE],
          [x |-> 400, y |-> 350, width |-> 150, height |-> 20, oneWay |-> TRUE],
          [x |-> 800, y |-> 300, width |-> 200, height |-> 20, oneWay |-> TRUE],
          [x |-> 1200, y |-> 350, width |-> 150, height |-> 20, oneWay |-> TRUE],
          [x |-> 0, y |-> 0, width |-> 20, height |-> 800, oneWay |-> FALSE],
          [x |-> 1580, y |-> 0, width |-> 20, height |-> 800, oneWay |-> FALSE]>>,
     enemySpawns |->
        <<[x |-> 800, y |-> 750,
           patrolPoints |-> <<[x |-> 600, y |-> 750], [x |-> 1000, y |-> 750]>>],
          [x |-> 500, y |-> 450,
           patrolPoints |-> <<[x |-> 500, y |-> 450], [x |-> 700, y |-> 450]>>],
          [x |-> 1300, y |-> 450,
           patrolPoints |-> <<[x |-> 1100, y |-> 450], [x |-> 1400, y |-> 450]>>]>>]

InitEngine ==
    /\ WorldIs(LoadLevel(NewEngine, LEVEL_1))
    /\ isPaused = FALSE
    /\ input = NoInput
    /\ clock = [ticks |-> 0, events |-> 0]
    /\ wHist = << >>
    /\ lastOp = NoOp

worldVars == <<heap, registry, nextEntityId, weaponStates, pool, particles,
               platforms, level>>
outsideEngine == <<loopVars, wHist, lastOp>>

\* Engine.update(dt) with dt = FIXED_TIMESTEP, as the GameLoop calls it
Released == input.keys = {} /\ ~input.mouseDown
MayUpdate ==
    clock.ticks < MaxTicks \/ (Released /\ clock.ticks < LongTicks)

\* An update that tests isPaused only after the steps of the tick
EngineUpdateThenPause ==
    /\ MayUpdate
    /\ \E rnd \in RandomSet :
        LET paused == IF IsKeyPressed("escape") THEN ~isPaused ELSE isPaused
            start == [EngineWorld EXCEPT
                        !.log.update = IF paused THEN "paused" ELSE "ran",
                        !.log.before = [heap |-> heap, registry |-> registry]]
        IN  /\ isPaused' = paused
            /\ WorldBecomes(RunPhases(start, EnginePhases, 1, FIXED_TIMESTEP, rnd))
    /\ input' = UpdateKeyStates(input)
    /\ clock' = [clock EXCEPT !.ticks = @ + 1]
    /\ UNCHANGED outsideEngine

EngineUpdate ==
    /\ MayUpdate
    /\ \E rnd \in RandomSet :
        LET paused == IF IsKeyPressed("escape") THEN ~isPaused ELSE isPaused
            start == [EngineWorld EXCEPT
                        !.log.update = "ran",
                        !.log.before = [heap |-> heap, registry |-> registry]]
        IN  /\ isPaused' = paused
            /\ IF paused
               THEN /\ tickLog' = [EmptyLog EXCEPT !.update = "paused"]
                    /\ UNCHANGED worldVars
               ELSE WorldBecomes(RunPhases(start, EnginePhases, 1,
                                           FIXED_TIMESTEP, rnd))
    /\ input' = UpdateKeyStates(input)
    /\ clock' = [clock EXCEPT !.ticks = @ + 1]
    /\ UNCHANGED outsideEngine

MayInput == clock.ticks < MaxTicks /\ clock.events < MaxEvents

InputEvent(inp) ==
    /\ MayInput
    /\ input' = inp
    /\ clock' = [clock EXCEPT !.events = @ + 1]
    /\ tickLog' = EmptyLog
    /\ UNCHANGED <<worldVars, isPaused, outsideEngine>>

\* InputManager.handleKeyDown, handleKeyUp
KeyDown ==
    \E key \in Keys \ input.keys :
        InputEvent([input EXCEPT !.keys = @ \cup {key}])
KeyUp ==
    \E key \in input.keys :
        InputEvent([input EXCEPT !.keys = @ \ {key}])

\* InputManager.handleMouseDown, handleMouseUp (button 0), handleMouseMove
MouseDown ==
    /\ ~input.mouseDown
    /\ InputEvent([input EXCEPT !.mouseDown = TRUE])
MouseUp ==
    /\ input.mouseDown
    /\ InputEvent([input EXCEPT !.mouseDown = FALSE])
MouseMove ==
    \E p \in MousePositions \ {input.mousePos} :
        InputEvent([input EXCEPT !.mousePos = p])

\* Engine.setPaused(paused)
SetPaused ==
    /\ MayInput
    /\ isPaused' = ~isPaused
    /\ clock' = [clock EXCEPT !.events = @ + 1]
    /\ tickLog' = EmptyLog
    /\ UNCHANGED <<worldVars, input, outsideEngine>>

\* LevelManager.respawnPlayer()
Respawn ==
    /\ MayInput
    /\ WorldBecomes(RespawnPlayer(EngineWorld))
    /\ clock' = [clock EXCEPT !.events = @ + 1]
    /\ UNCHANGED <<isPaused, input, outsideEngine>>

Init == InitLoop /\ InitEngine

Next ==
    \/ EngineUpdate
    \/ KeyDown
    \/ KeyUp
    \/ MouseDown
    \/ MouseUp
    \/ MouseMove
    \/ SetPaused
    \/ Respawn

Spec == Init /\ [][Next]_vars

-----------------------------------------------------------------------------
(***************************************************************************)
(* The PhysicsSystem specification: PhysicsSystem.update(entities, dt)     *)
(* with dt = FIXED_TIMESTEP on one physics-tagged entity, started at a     *)
(* position and velocity drawn from the sets below, over a platform list   *)
(* drawn from PlatformLists.  tickLog.before holds the heap the update     *)
(* was given.                                                              *)
(***************************************************************************)

MaxPhysicsTicks == 3

Platform(x, y, width, height, oneWay) ==
    [x |-> x, y |-> y, width |-> width, height |-> height, oneWay |-> oneWay]

\* The platform lists given to setPlatforms: a one-way platform of LEVEL_1;
\* two ground segments of LEVEL_2 with the gap between them; the ground and
\* the left wall of LEVEL_1; two one-way platforms set as stairs.
PlatformLists ==
    {<<Platform(300, 650, 200, 20, TRUE)>>,
     <<Platform(0, 800, 600, 100, FALSE), Platform(800, 800, 400, 100, FALSE)>>,
     <<Platform(0, 800, 1600, 100, FALSE), Platform(0, 0, 20, 800, FALSE)>>,
     <<Platform(300, 650, 200, 20, TRUE), Platform(400, 640, 200, 20, TRUE)>>}

\* Start positions in pixels, start velocities in pixels per second
StartXs == {15, 350, 420, 768}
StartYs == {590, 600, 602, 604, 630, 754}
StartVXs == {-60, 0, 60}
StartVYs == {-300, 0, 300, 900}

InitPhysics ==
    \E plats \in PlatformLists, x \in StartXs, y \in StartYs,
       vx \in StartVXs, vy \in StartVYs, grounded \in BOOLEAN :
        LET body == [NewPlayer(1, Pixels(x, y)) EXCEPT
                        !.velocity = Vec2(PerSecond(vx), PerSecond(vy))]
        IN  /\ heap = <<IF grounded THEN AddTag(body, "grounded") ELSE body>>
            /\ registry = <<[id |-> 1, ref |-> 1]>>
            /\ platforms = plats
            /\ nextEntityId = 2
            /\ pool = [free |-> << >>, active |-> << >>, nextId |-> 10000]
            /\ particles = NewParticleSystem
            /\ level = NoLevelManager
            /\ isPaused = FALSE
            /\ input = NoInput
            /\ clock = [ticks |-> 0, events |-> 0]
            /\ tickLog = EmptyLog

\* physicsSystem.update(engine.getAllEntities(), FIXED_TIMESTEP)
PhysicsTick ==
    /\ clock.ticks < MaxPhysicsTicks
    /\ heap' = PhysicsUpdate(heap, GetAllEntities(EngineWorld), 1, platforms,
                             FIXED_TIMESTEP)
    /\ tickLog' = [EmptyLog EXCEPT
                     !.update = "physics",
                     !.before = [heap |-> heap, registry |-> registry]]
    /\ clock' = [clock EXCEPT !.ticks = @ + 1]
    /\ UNCHANGED <<registry, nextEntityId, isPaused, pool, particles, platforms,
                   level, input>>
    /\ UNCHANGED <<loopVars, weaponVars>>

InitPlatforms == InitLoop /\ InitWeapon /\ InitPhysics

SpecPhysics == InitPlatforms /\ [][PhysicsTick]_vars

-----------------------------------------------------------------------------
(***************************************************************************)
(* The enemy AI specification: a level with one enemy, loaded into a new   *)
(* engine; LevelManager.update(FIXED_TIMESTEP) is called any number of     *)
(* times, and between the calls the player comes to stand at one of a few  *)
(* places around the enemy.  tickLog.before holds the heap the update was  *)
(* given.                                                                  *)
(***************************************************************************)

\* The enemy spawns: without patrol points, with one, and the first two
\* spawns of LEVEL_1
EnemySpawns ==
    {[x |-> 800, y |-> 750, type |-> "basic", patrolPoints |-> << >>],
     [x |-> 800, y |-> 750, type |-> "basic",
      patrolPoints |-> <<[x |-> 800, y |-> 750]>>],
     LEVEL_1.enemySpawns[1],
     LEVEL_1.enemySpawns[2]}

\* Where the player comes to stand, from the enemy's position: pixels and
\* position units
PlayerOffsets ==
    {[x |-> 0, y |-> 0, units |-> 0], [x |-> 300, y |-> 0, units |-> 0],
     [x |-> 300, y |-> 0, units |-> 1], [x |-> -400, y |-> 0, units |-> 0],
     [x |-> 401, y |-> 0, units |-> 0], [x |-> 480, y |-> 0, units |-> 0],
     [x |-> 600, y |-> 0, units |-> 0], [x |-> 600, y |-> 0, units |-> 1],
     [x |-> 640, y |-> 0, units |-> 0], [x |-> 360, y |-> -480, units |-> 0],
     [x |-> 361, y |-> -480, units |-> 0], [x |-> 180, y |-> -240, units |-> 0]}

InitAI ==
    /\ \E spawn \in EnemySpawns :
          WorldIs(LoadLevel(NewEngine, [LEVEL_1 EXCEPT !.enemySpawns = <<spawn>>]))
    /\ isPaused = FALSE
    /\ input = NoInput
    /\ clock = [ticks |-> 0, events |-> 0]
    /\ wHist = << >>
    /\ lastOp = NoOp

\* The player is at another place before the next call
PlayerMoves ==
    /\ level.player # 0 /\ Len(level.enemies) > 0
    /\ \E off \in PlayerOffsets :
          LET from == heap[level.enemies[1]].position
              place == Vec2(from.x + off.x * UnitsPerPixel + off.units,
                            from.y + off.y * UnitsPerPixel)
          IN  /\ heap[level.player].position # place
              /\ heap' = [heap EXCEPT ![level.player].position = place]
    /\ tickLog' = EmptyLog
    /\ UNCHANGED <<registry, nextEntityId, weaponStates, pool, particles,
                   platforms, level, isPaused, input, clock>>
    /\ UNCHANGED outsideEngine

\* levelManager.update(dt), as the game loop's update callback calls it
LevelManagerUpdate ==
    /\ \E rnd \in RandomSet :
          WorldBecomes(LevelUpdate(
              [EngineWorld EXCEPT
                  !.log.update = "ai",
                  !.log.before = [heap |-> heap, registry |-> registry]],
              FIXED_TIMESTEP, rnd))
    /\ UNCHANGED <<isPaused, input, clock>>
    /\ UNCHANGED outsideEngine

InitEnemy == InitLoop /\ InitAI

NextAI == PlayerMoves \/ LevelManagerUpdate

SpecAI == InitEnemy /\ [][NextAI]_vars

-----------------------------------------------------------------------------
(***************************************************************************)
(* The game specification: the update callback GameCanvas gives the        *)
(* GameLoop, engine.update(dt) followed by levelManager.update(dt), called *)
(* tick after tick on a level loaded into a new engine, with no input.     *)
(* tickLog.before holds the heap and the registry the callback began with. *)
(***************************************************************************)

Ground == [x |-> 0, y |-> 800, width |-> 1600, height |-> 100, oneWay |-> FALSE]

\* One enemy standing on the ground with two waypoints at its height,
\* 200 px apart, the player 1000 px away
PatrolLevel ==
    [loaded |-> TRUE,
     playerSpawn |-> [x |-> 100, y |-> 700],
     platforms |-> <<Ground>>,
     enemySpawns |->
        <<[x |-> 1100, y |-> 752,
           patrolPoints |-> <<[x |-> 1100, y |-> 752], [x |-> 1300, y |-> 752]>>]>>]

\* One enemy with the player 200 px away, inside its attack range
DuelLevel ==
    [loaded |-> TRUE,
     playerSpawn |-> [x |-> 200, y |-> 700],
     platforms |-> <<Ground>>,
     enemySpawns |-> <<[x |-> 400, y |-> 750, patrolPoints |-> << >>]>>]

\* The patrol level, and LEVEL_1 with the third of its enemies alone
GameLevels ==
    {PatrolLevel,
     [LEVEL_1 EXCEPT !.enemySpawns = <<LEVEL_1.enemySpawns[3]>>]}

InitGame ==
    /\ \E lvl \in GameLevels : WorldIs(LoadLevel(NewEngine, lvl))
    /\ isPaused = FALSE
    /\ input = NoInput
    /\ clock = [ticks |-> 0, events |-> 0]
    /\ wHist = << >>
    /\ lastOp = NoOp

\* engine.update(dt); levelManager.update(dt)
GameUpdate(w, paused, dt, rnd) ==
    LevelUpdate(IF paused THEN w ELSE RunPhases(w, EnginePhases, 1, dt, rnd),
                dt, rnd)

\* The update callback, called with dt = FIXED_TIMESTEP
GameCallback ==
    \E rnd \in RandomSet :
        LET paused == IF IsKeyPressed("escape") THEN ~isPaused ELSE isPaused
            start == [EngineWorld EXCEPT
                        !.log.update = IF paused THEN "paused" ELSE "ran",
                        !.log.before = [heap |-> heap, registry |-> registry]]
        IN  /\ isPaused' = paused
            /\ WorldBecomes(GameUpdate(start, paused, FIXED_TIMESTEP, rnd))
            /\ input' = UpdateKeyStates(input)

\* clock.ticks holds the parity of the number of ticks
Parity(clk) == [clk EXCEPT !.ticks = 1 - @]

GameTick ==
    /\ GameCallback
    /\ clock' = Parity(clock)
    /\ UNCHANGED outsideEngine

InitPlay == InitLoop /\ InitGame

SpecGame == InitPlay /\ [][GameTick]_vars

\* The host keeps calling the frame callback: there is always another tick
AnotherTick == clock' = Parity(clock)
SpecGameLive == SpecGame /\ WF_clock(AnotherTick)


(***************************************************************************)
(* The duel specification: the game tick on a level whose enemy has the    *)
(* player inside its attack range from the start; no input.  shots counts  *)
(* the enemy's shots and since the simulated time since the last of them.  *)
(***************************************************************************)
MaxDuelTicks == 1450

InitDuel ==
    /\ WorldIs(LoadLevel(NewEngine, DuelLevel))
    /\ isPaused = FALSE
    /\ input = NoInput
    /\ clock = [ticks |-> 0, events |-> 0]
    /\ wHist = [shots |-> 0, since |-> 0]
    /\ lastOp = NoOp

EnemyFired(log, w) ==
    \E k \in 1 .. Len(log.fired) : log.fired[k] = w[level.enemies[1]].id

DuelTick ==
    /\ clock.ticks < MaxDuelTicks
    /\ GameCallback
    /\ clock' = [clock EXCEPT !.ticks = @ + 1]
    /\ wHist' = IF EnemyFired(tickLog', heap')
                THEN [shots |-> wHist.shots + 1, since |-> 0]
                ELSE [wHist EXCEPT !.since = @ + FIXED_TIMESTEP]
    /\ UNCHANGED <<loopVars, lastOp>>

InitShootout == InitLoop /\ InitDuel
SpecDuel == InitShootout /\ [][DuelTick]_vars


(***************************************************************************)
(* The pools specification: the calls of ProjectilePool, ParticleSystem    *)
(* and of the Engine's registry, in any order, on a new Engine.  wHist is  *)
(* the sequence of ids Engine.spawn has returned.                          *)
(***************************************************************************)
MaxPoolCalls == 4

Lifetimes == {FIXED_TIMESTEP, 2 * FIXED_TIMESTEP}

InitPools ==
    /\ WorldIs(NewEngine)
    /\ isPaused = FALSE
    /\ input = NoInput
    /\ clock = [ticks |-> 0, events |-> 0]
    /\ wHist = << >>
    /\ lastOp = NoOp

PoolCall(op, w, ids) ==
    /\ clock.events < MaxPoolCalls
    /\ WorldBecomes([w EXCEPT !.log.update = op])
    /\ clock' = [clock EXCEPT !.events = @ + 1]
    /\ wHist' = wHist \o ids
    /\ UNCHANGED <<isPaused, input, loopVars, lastOp>>

\* projectilePool.acquire(position, direction, owner, damage, speed, lifetime)
CallAcquire ==
    \E lifetime \in Lifetimes :
        PoolCall("acquire",
                 Acquire(EngineWorld, Pixels(0, 0), Vec2(1, 0), 1, 10, 800, lifetime),
                 << >>)
\* projectile.update(dt) on every projectile in use
CallProjectileUpdate ==
    PoolCall("projectile.update",
             [EngineWorld EXCEPT !.heap =
                 [r \in DOMAIN heap |->
                     IF SeqHas(pool.active, r) /\ heap[r].active
                     THEN ProjectileUpdate(heap[r], FIXED_TIMESTEP)
                     ELSE heap[r]]],
             << >>)
\* projectilePool.update()
CallPoolUpdate == PoolCall("pool.update", PoolUpdate(EngineWorld), << >>)
\* projectilePool.clear()
CallPoolClear == PoolCall("pool.clear", PoolClear(EngineWorld), << >>)
\* particleSystem.spawnMuzzleFlash(position, direction)
CallSpawnMuzzleFlash ==
    PoolCall("spawnMuzzleFlash",
             [EngineWorld EXCEPT !.particles = SpawnMuzzleFlash(@)], << >>)
\* particleSystem.spawnHitSparks(position, normal)
CallSpawnHitSparks ==
    \E rnd \in RandomSet :
        PoolCall("spawnHitSparks",
                 [EngineWorld EXCEPT !.particles = SpawnHitSparks(@, rnd)], << >>)
\* particleSystem.update(dt)
CallParticleUpdate ==
    PoolCall("particles.update",
             [EngineWorld EXCEPT !.particles = ParticleUpdate(@, FIXED_TIMESTEP)],
             << >>)
\* engine.spawnProjectile(projectileData)
CallSpawnProjectile ==
    PoolCall("spawnProjectile",
             SpawnProjectile(EngineWorld,
                             [position |-> Pixels(0, 0), direction |-> Vec2(1, 0),
                              damage |-> 10, speed |-> 800, owner |-> 1]),
             <<nextEntityId>>)
\* engine.spawn(entity), of any object there is
CallSpawn ==
    \E ref \in DOMAIN heap :
        PoolCall("spawn", Spawn(EngineWorld, ref), <<nextEntityId>>)
\* engine.despawn(id)
CallDespawn ==
    \E k \in 1 .. Len(registry) :
        PoolCall("despawn", Despawn(EngineWorld, registry[k].id), << >>)
\* engine.clear()
CallClear == PoolCall("clear", Clear(EngineWorld), << >>)
\* engine.update(dt), not paused
CallEngineUpdate ==
    \E rnd \in RandomSet :
        PoolCall("update",
                 RunPhases([EngineWorld EXCEPT
                               !.log.before = [heap |-> heap, registry |-> registry]],
                           EnginePhases, 1, FIXED_TIMESTEP, rnd),
                 << >>)

NextPools ==
    \/ CallAcquire
    \/ CallProjectileUpdate
    \/ CallPoolUpdate
    \/ CallPoolClear
    \/ CallSpawnMuzzleFlash
    \/ CallSpawnHitSparks
    \/ CallParticleUpdate
    \/ CallSpawnProjectile
    \/ CallSpawn
    \/ CallDespawn
    \/ CallClear
    \/ CallEngineUpdate

InitPooled == InitLoop /\ InitPools
SpecPools == InitPooled /\ [][NextPools]_vars


(***************************************************************************)
(* The pause specification: the first game ticks of LEVEL_1 and of the     *)
(* duel level, with setPaused called between them as the isPaused prop of  *)
(* GameCanvas changes.                                                     *)
(***************************************************************************)
MaxPauseTicks == 8

PauseTick ==
    /\ clock.ticks < MaxPauseTicks
    /\ GameCallback
    /\ clock' = [clock EXCEPT !.ticks = @ + 1]
    /\ UNCHANGED outsideEngine

NextPause == PauseTick \/ SetPaused

InitPaused == InitLoop /\ (InitEngine \/ InitDuel)
SpecPause == InitPaused /\ [][NextPause]_vars

(***************************************************************************)
(* The level specification: game ticks on a level with no, one or two      *)
(* enemies, with takeDamage and heal called on the player and the enemies  *)
(* between the ticks, as the collision callbacks and the game's code may   *)
(* call them.  wHist counts the notifications LevelManager.update has      *)
(* made and holds those of the last tick.                                  *)
(***************************************************************************)
MaxLevelTicks == 4
MaxLevelCalls == 4

Damages == {25, 60, 150}
Heals == {30, 120}

\* A level without enemy spawns, and one with two enemies that stand idle
\* out of sight of the player
NoEnemyLevel == [DuelLevel EXCEPT !.enemySpawns = << >>]
PairLevel ==
    [DuelLevel EXCEPT !.enemySpawns =
        <<[x |-> 1000, y |-> 752, patrolPoints |-> << >>],
          [x |-> 1400, y |-> 752, patrolPoints |-> << >>]>>]
LevelSet == {NoEnemyLevel, DuelLevel, PairLevel}

\* Player.heal(amount)
Heal(e, amount) ==
    IF e.health + amount > e.maxHealth
    THEN [e EXCEPT !.health = e.maxHealth]
    ELSE [e EXCEPT !.health = e.health + amount]

\* LevelManager.isLevelComplete()
IsLevelComplete(w) ==
    /\ \A k \in 1 .. Len(w.level.enemies) : ~w.heap[w.level.enemies[k]].active
    /\ Len(w.level.enemies) > 0

\* A completion test that leaves out the count of the enemies
NotificationsAnyCount(w) ==
    (IF w.level.player # 0 /\ ~w.heap[w.level.player].active
     THEN <<"playerDeath">> ELSE << >>)
    \o (IF \A k \in 1 .. Len(w.level.enemies) : ~w.heap[w.level.enemies[k]].active
        THEN <<"levelComplete">> ELSE << >>)

\* LevelManager.update(dt), after the loop over the enemies: the callbacks
\* it calls, in order (GameCanvas sets both of them)
Notifications(w) ==
    (IF w.level.player # 0 /\ ~w.heap[w.level.player].active
     THEN <<"playerDeath">> ELSE << >>)
    \o (IF /\ \A k \in 1 .. Len(w.level.enemies) :
                 ~w.heap[w.level.enemies[k]].active
           /\ Len(w.level.enemies) > 0
        THEN <<"levelComplete">> ELSE << >>)

NoNotes == [complete |-> 0, death |-> 0, emitted |-> << >>]

Count(s, x) == Len(SelectSeq(s, LAMBDA y : y = x))

InitLevel ==
    /\ \E lvl \in LevelSet : WorldIs(LoadLevel(NewEngine, lvl))
    /\ isPaused = FALSE
    /\ input = NoInput
    /\ clock = [ticks |-> 0, events |-> 0]
    /\ wHist = NoNotes
    /\ lastOp = NoOp

\* The update callback; the notifications are those of its
\* levelManager.update(dt)
LevelTick ==
    /\ clock.ticks < MaxLevelTicks
    /\ GameCallback
    /\ clock' = [clock EXCEPT !.ticks = @ + 1]
    /\ LET notes == Notifications([EngineWorld EXCEPT !.heap = heap',
                                                      !.level = level'])
       IN  wHist' = [complete |-> wHist.complete + Count(notes, "levelComplete"),
                     death |-> wHist.death + Count(notes, "playerDeath"),
                     emitted |-> notes]
    /\ UNCHANGED <<loopVars, lastOp>>

LevelCall(h) ==
    /\ clock.events < MaxLevelCalls
    /\ heap' = h
    /\ clock' = [clock EXCEPT !.events = @ + 1]
    /\ tickLog' = [EmptyLog EXCEPT !.update = "call"]
    /\ UNCHANGED <<registry, nextEntityId, weaponStates, pool, particles,
                   platforms, level, isPaused, input, wHist, loopVars, lastOp>>

\* player.takeDamage(amount), enemy.takeDamage(amount)
CallTakeDamage ==
    \E r \in {level.player} \cup {level.enemies[k] : k \in 1 .. Len(level.enemies)} :
        \E amount \in Damages :
            LevelCall([heap EXCEPT ![r] = TakeDamage(@, amount)])

\* player.heal(amount)
CallHeal ==
    \E amount \in Heals :
        LevelCall([heap EXCEPT ![level.player] = Heal(@, amount)])

NextLevel == LevelTick \/ CallTakeDamage \/ CallHeal

InitLevelLoaded == InitLoop /\ InitLevel
SpecLevel == InitLevelLoaded /\ [][NextLevel]_vars

(***************************************************************************)
(* The storage specification: calls of the StorageManager on a store that  *)
(* holds nothing, a text JSON.parse rejects, or saved progress, and whose  *)
(* accesses (getItem, setItem, removeItem) may throw.  wHist is what the   *)
(* store holds under STORAGE_KEY; lastOp is the call made last.            *)
(***************************************************************************)
MaxStorageCalls == 3

StoredLevels == {0, 1}
Scores == {0, 500, 1000}
StoreAccesses == {"getItem", "setItem", "removeItem"}
\* The accesses that throw during one call: none, one of them, or all
Failings == {{}, StoreAccesses} \cup {{a} : a \in StoreAccesses}

Absent == [kind |-> "absent"]
Unparsable == [kind |-> "unparsable"]
Null == [kind |-> "null"]
DefaultData == [unlockedLevels |-> <<0>>, bestScores |-> << >>]

\* The keys of an object in the order JSON.stringify writes them: integer
\* keys ascending
RECURSIVE KeysInOrder(_)
KeysInOrder(keys) ==
    IF keys = {} THEN << >>
    ELSE LET least == CHOOSE k \in keys : \A j \in keys : k <= j
         IN  <<least>> \o KeysInOrder(keys \ {least})

\* JSON.stringify(data): the array as it is, the object as its members
Stringify(data) ==
    [kind |-> "json",
     unlockedLevels |-> data.unlockedLevels,
     bestScores |->
        LET keys == KeysInOrder(DOMAIN data.bestScores)
        IN  [i \in 1 .. Len(keys) |->
                [key |-> keys[i], value |-> data.bestScores[keys[i]]]]]

\* JSON.parse(json) of a text Stringify wrote
Parse(json) ==
    [unlockedLevels |-> json.unlockedLevels,
     bestScores |->
        [k \in {json.bestScores[i].key : i \in 1 .. Len(json.bestScores)} |->
            (CHOOSE m \in {json.bestScores[i] : i \in 1 .. Len(json.bestScores)} :
                m.key = k).value]]

\* A call's outcome: the store afterwards, whether the call raised, and
\* what it returned
Outcome(store, raised, result) ==
    [store |-> store, raised |-> raised, result |-> result]

\* saveProgress(data)
SaveProgress(store, data, failing) ==
    IF "setItem" \in failing
    THEN Outcome(store, FALSE, Null)
    ELSE Outcome(Stringify(data), FALSE, Null)

\* loadProgress()
LoadProgress(store, failing) ==
    IF "getItem" \in failing THEN Outcome(store, FALSE, Null)
    ELSE IF store.kind = "absent" THEN Outcome(store, FALSE, Null)
    ELSE IF store.kind = "unparsable" THEN Outcome(store, FALSE, Null)
    ELSE Outcome(store, FALSE, Parse(store))

\* this.loadProgress() || { unlockedLevels: [0], bestScores: {} }
LoadOrDefault(store, failing) ==
    LET data == LoadProgress(store, failing).result
    IN  IF data = Null THEN DefaultData ELSE data

\* data.bestScores[level], undefined read as 0 where the code tests it
ScoreOf(data, lvl) ==
    IF lvl \in DOMAIN data.bestScores THEN data.bestScores[lvl] ELSE 0

\* updateBestScore(level, score)
UpdateBestScore(store, lvl, score, failing) ==
    LET data == LoadOrDefault(store, failing)
    IN  IF ScoreOf(data, lvl) = 0 \/ score > ScoreOf(data, lvl)
        THEN SaveProgress(store,
                          [data EXCEPT !.bestScores = MapSet(@, lvl, score)],
                          failing)
        ELSE Outcome(store, FALSE, Null)

\* unlockLevel(level)
UnlockLevel(store, lvl, failing) ==
    LET data == LoadOrDefault(store, failing)
    IN  IF ~SeqHas(data.unlockedLevels, lvl)
        THEN SaveProgress(store,
                          [data EXCEPT !.unlockedLevels =
                              SortSeq(Append(@, lvl), LAMBDA a, b : a < b)],
                          failing)
        ELSE Outcome(store, FALSE, Null)

\* isLevelUnlocked(level)
IsLevelUnlocked(store, lvl, failing) ==
    LET data == LoadProgress(store, failing).result
    IN  IF data = Null THEN Outcome(store, FALSE, lvl = 0)
        ELSE Outcome(store, FALSE, SeqHas(data.unlockedLevels, lvl))

\* getBestScore(level)
GetBestScore(store, lvl, failing) ==
    LET data == LoadProgress(store, failing).result
    IN  IF data = Null THEN Outcome(store, FALSE, 0)
        ELSE Outcome(store, FALSE, ScoreOf(data, lvl))

\* clearProgress(): removeItem is called outside any try
ClearProgress(store, failing) ==
    IF "removeItem" \in failing THEN Outcome(store, TRUE, Null)
    ELSE Outcome(Absent, FALSE, Null)

\* The progress a caller may pass to saveProgress
SaveDatas ==
    {DefaultData,
     [unlockedLevels |-> <<0, 1>>, bestScores |-> MapSet(<< >>, 0, 500)]}

NoCall == [op |-> "none", level |-> 0, failing |-> {}, raised |-> FALSE,
           result |-> Null, before |-> Absent]

InitStorage ==
    /\ InitLoop
    /\ InitEngineIdle
    /\ weaponStates = << >>
    /\ tickLog = EmptyLog
    /\ wHist \in {Absent, Unparsable} \cup {Stringify(d) : d \in SaveDatas}
    /\ lastOp = NoCall

StorageCall(op, lvl, failing, out) ==
    /\ clock.events < MaxStorageCalls
    /\ wHist' = out.store
    /\ lastOp' = [op |-> op, level |-> lvl, failing |-> failing,
                  raised |-> out.raised, result |-> out.result, before |-> wHist]
    /\ clock' = [clock EXCEPT !.events = @ + 1]
    /\ UNCHANGED <<loopVars, weaponStates, heap, registry, nextEntityId,
                   isPaused, pool, particles, platforms, level, input, tickLog>>

CallSaveProgress ==
    \E failing \in Failings, data \in SaveDatas :
        StorageCall("saveProgress", 0, failing, SaveProgress(wHist, data, failing))
CallLoadProgress ==
    \E failing \in Failings :
        StorageCall("loadProgress", 0, failing, LoadProgress(wHist, failing))
CallUpdateBestScore ==
    \E failing \in Failings, lvl \in StoredLevels, score \in Scores :
        StorageCall("updateBestScore", lvl, failing,
                    UpdateBestScore(wHist, lvl, score, failing))
CallUnlockLevel ==
    \E failing \in Failings, lvl \in StoredLevels :
        StorageCall("unlockLevel", lvl, failing, UnlockLevel(wHist, lvl, failing))
CallIsLevelUnlocked ==
    \E failing \in Failings, lvl \in StoredLevels :
        StorageCall("isLevelUnlocked", lvl, failing,
                    IsLevelUnlocked(wHist, lvl, failing))
CallGetBestScore ==
    \E failing \in Failings, lvl \in StoredLevels :
        StorageCall("getBestScore", lvl, failing, GetBestScore(wHist, lvl, failing))
CallClearProgress ==
    \E failing \in Failings :
        StorageCall("clearProgress", 0, failing, ClearProgress(wHist, failing))

NextStorage ==
    \/ CallSaveProgress
    \/ CallLoadProgress
    \/ CallUpdateBestScore
    \/ CallUnlockLevel
    \/ CallIsLevelUnlocked
    \/ CallGetBestScore
    \/ CallClearProgress

SpecStorage == InitStorage /\ [][NextStorage]_vars

(***************************************************************************)
(* The weapon swap specification: game ticks on LEVEL_1 with the F key     *)
(* pressed and released between them.  wHist counts the presses of F that  *)
(* a tick has seen (served), the ticks run with F down (held) and the      *)
(* changes of the player's currentWeaponIndex (swaps); fresh says that F   *)
(* has gone down since the last tick.                                      *)
(***************************************************************************)
MaxSwapTicks == 6
MaxSwapEvents == 4

NoSwaps == [served |-> 0, held |-> 0, swaps |-> 0, fresh |-> FALSE]

InitSwap ==
    /\ InitLoop
    /\ WorldIs(LoadLevel(NewEngine, LEVEL_1))
    /\ isPaused = FALSE
    /\ input = NoInput
    /\ clock = [ticks |-> 0, events |-> 0]
    /\ wHist = NoSwaps
    /\ lastOp = NoOp

SwapEvent(inp, fresh) ==
    /\ clock.events < MaxSwapEvents
    /\ input' = inp
    /\ clock' = [clock EXCEPT !.events = @ + 1]
    /\ wHist' = [wHist EXCEPT !.fresh = fresh]
    /\ tickLog' = EmptyLog
    /\ UNCHANGED <<worldVars, isPaused, loopVars, lastOp>>

\* InputManager.handleKeyDown, handleKeyUp for the F key
PressF ==
    /\ "f" \notin input.keys
    /\ SwapEvent([input EXCEPT !.keys = @ \cup {"f"}], TRUE)
ReleaseF ==
    /\ "f" \in input.keys
    /\ SwapEvent([input EXCEPT !.keys = @ \ {"f"}], FALSE)

\* The update callback
SwapTick ==
    /\ clock.ticks < MaxSwapTicks
    /\ GameCallback
    /\ clock' = [clock EXCEPT !.ticks = @ + 1]
    /\ wHist' =
         [served |-> wHist.served + (IF wHist.fresh THEN 1 ELSE 0),
          held |-> wHist.held + (IF "f" \in input.keys THEN 1 ELSE 0),
          swaps |-> wHist.swaps
                      + (IF heap'[level.player].currentWeaponIndex
                              # heap[level.player].currentWeaponIndex
                         THEN 1 ELSE 0),
          fresh |-> FALSE]
    /\ UNCHANGED <<loopVars, lastOp>>

NextSwap == SwapTick \/ PressF \/ ReleaseF

SpecSwap == InitSwap /\ [][NextSwap]_vars

(***************************************************************************)
(* The resting specification: PhysicsSystem.update on one entity that      *)
(* stands still on the top of a platform, over the platform by a few       *)
(* widths from a sliver at its edge to its whole width.                    *)
(***************************************************************************)

\* Widths, in position units, by which the entity stands over the
\* platform's edge; the last is the entity's whole width
EdgeOverlaps == {1, 360, 979, 980, 1800, 16 * UnitsPerPixel, 32 * UnitsPerPixel}

\* The platform lists and the platform stood on: a one-way platform of
\* LEVEL_1, and the first two ground segments of LEVEL_2
RestPlatforms ==
    {[plats |-> <<Platform(300, 650, 200, 20, TRUE)>>, k |-> 1],
     [plats |-> <<Platform(0, 800, 600, 100, FALSE),
                  Platform(800, 800, 400, 100, FALSE)>>, k |-> 1],
     [plats |-> <<Platform(0, 800, 600, 100, FALSE),
                  Platform(800, 800, 400, 100, FALSE)>>, k |-> 2]}

\* The positions at which a 32 x 48 entity stands on platform p, over its
\* left or its right edge by the width given
RestPositions(p) ==
    {Vec2(PlatformBounds(p).x - 32 * UnitsPerPixel + o,
          PlatformBounds(p).y - 48 * UnitsPerPixel) : o \in EdgeOverlaps}
    \cup
    {Vec2(PlatformBounds(p).x + PlatformBounds(p).width - o,
          PlatformBounds(p).y - 48 * UnitsPerPixel) : o \in EdgeOverlaps}

InitRest ==
    /\ InitLoop
    /\ InitWeapon
    /\ \E place \in RestPlatforms :
         \E at \in RestPositions(place.plats[place.k]) :
            /\ heap = <<AddTag(NewPlayer(1, at), "grounded")>>
            /\ platforms = place.plats
    /\ registry = <<[id |-> 1, ref |-> 1]>>
    /\ nextEntityId = 2
    /\ pool = [free |-> << >>, active |-> << >>, nextId |-> 10000]
    /\ particles = NewParticleSystem
    /\ level = NoLevelManager
    /\ isPaused = FALSE
    /\ input = NoInput
    /\ clock = [ticks |-> 0, events |-> 0]
    /\ tickLog = EmptyLog

SpecRest == InitRest /\ [][PhysicsTick]_vars

(***************************************************************************)
(* The reuse specification: game ticks on a level whose enemy attacks from *)
(* the start, at a distance (its projectiles expire) or standing over the  *)
(* player (they hit); at the times in EventTimes the level may be loaded   *)
(* again, the player respawned, the pause toggled, or the mouse button     *)
(* pressed for one tick.                                                   *)
(* The pool starts with InitialPoolSize instances, so they are reused.     *)
(* wHist holds the (instance, id) pairs of the projectiles seen in the     *)
(* registry between the ticks.                                             *)
(***************************************************************************)
MaxReuseTicks == 245
MaxReuseEvents == 1
EventTimes == {122}

\* The enemy of the duel level set 10 px beside the player
MeleeLevel ==
    [DuelLevel EXCEPT !.enemySpawns = <<[x |-> 210, y |-> 700, patrolPoints |-> << >>]>>]

InitReuse ==
    /\ InitLoop
    /\ \E lvl \in {DuelLevel, MeleeLevel} : WorldIs(LoadLevel(NewEngine, lvl))
    /\ isPaused = FALSE
    /\ input = NoInput
    /\ clock = [ticks |-> 0, events |-> 0]
    /\ wHist = {}
    /\ lastOp = NoOp

\* The update callback; a press of the mouse button lasts one tick
ReuseTick ==
    /\ clock.ticks < MaxReuseTicks
    /\ input.mouseDown => clock.ticks \in EventTimes
    /\ GameCallback
    /\ clock' = [clock EXCEPT !.ticks = @ + 1]
    /\ wHist' = wHist \cup {<<registry'[i].ref, registry'[i].id>> :
                               i \in {j \in 1 .. Len(registry') :
                                         heap'[registry'[j].ref].kind = "Projectile"}}
    /\ UNCHANGED <<loopVars, lastOp>>

MayHappen == clock.ticks \in EventTimes /\ clock.events < MaxReuseEvents

\* levelManager.loadLevel(level, index), of the level loaded before
LoadAgain ==
    /\ MayHappen
    /\ WorldBecomes(LoadLevel(EngineWorld, level.currentLevel))
    /\ clock' = [clock EXCEPT !.events = @ + 1]
    /\ UNCHANGED <<isPaused, input, outsideEngine>>

\* levelManager.respawnPlayer()
RespawnNow ==
    /\ MayHappen
    /\ WorldBecomes(RespawnPlayer(EngineWorld))
    /\ clock' = [clock EXCEPT !.events = @ + 1]
    /\ UNCHANGED <<isPaused, input, outsideEngine>>

\* Engine.setPaused(paused)
PauseOrResume ==
    /\ MayHappen
    /\ isPaused' = ~isPaused
    /\ clock' = [clock EXCEPT !.events = @ + 1]
    /\ tickLog' = EmptyLog
    /\ UNCHANGED <<worldVars, input, outsideEngine>>

\* InputManager.handleMouseDown and, one tick later, handleMouseUp
Click ==
    /\ MayHappen
    /\ ~input.mouseDown
    /\ input' = [input EXCEPT !.mouseDown = TRUE]
    /\ clock' = [clock EXCEPT !.events = @ + 1]
    /\ tickLog' = EmptyLog
    /\ UNCHANGED <<worldVars, isPaused, outsideEngine>>
Unclick ==
    /\ input.mouseDown
    /\ clock.ticks \notin EventTimes
    /\ input' = [input EXCEPT !.mouseDown = FALSE]
    /\ tickLog' = EmptyLog
    /\ UNCHANGED <<worldVars, isPaused, clock, outsideEngine>>

NextReuse ==
    \/ ReuseTick
    \/ LoadAgain
    \/ RespawnNow
    \/ PauseOrResume
    \/ Click
    \/ Unclick

SpecReuse == InitReuse /\ [][NextReuse]_vars

(***************************************************************************)
(* The return specification: game ticks without end on a level without    *)
(* enemies; the player fires with a click that lasts one tick, and the     *)
(* level may be loaded again or a projectile despawned while projectiles   *)
(* are in flight.  Nothing pauses the engine.  clock.ticks counts the      *)
(* ticks up to MaxReturnTicks and then alternates, so that the ticks go on *)
(* in a finite state space; the events happen at the times in ReturnTimes. *)
(***************************************************************************)
MaxReturnTicks == 8
MaxReturnEvents == 3
ReturnTimes == {0, 2, 5}

InitReturn ==
    /\ InitLoop
    /\ WorldIs(LoadLevel(NewEngine, NoEnemyLevel))
    /\ isPaused = FALSE
    /\ input = NoInput
    /\ clock = [ticks |-> 0, events |-> 0]
    /\ wHist = << >>
    /\ lastOp = NoOp

TickCount(n) == IF n = MaxReturnTicks + 1 THEN MaxReturnTicks ELSE n + 1

\* The update callback; a press of the mouse button lasts one tick
ReturnTick ==
    /\ ~input.mouseDown \/ clock.ticks \in ReturnTimes
    /\ GameCallback
    /\ clock' = [clock EXCEPT !.ticks = TickCount(@)]
    /\ UNCHANGED outsideEngine

ReturnEvent == clock.ticks \in ReturnTimes /\ clock.events < MaxReturnEvents

\* InputManager.handleMouseDown and, one tick later, handleMouseUp
PressMouse ==
    /\ ReturnEvent
    /\ ~input.mouseDown
    /\ input' = [input EXCEPT !.mouseDown = TRUE]
    /\ clock' = [clock EXCEPT !.events = @ + 1]
    /\ tickLog' = EmptyLog
    /\ UNCHANGED <<worldVars, isPaused, outsideEngine>>
ReleaseMouse ==
    /\ input.mouseDown
    /\ clock.ticks \notin ReturnTimes
    /\ input' = [input EXCEPT !.mouseDown = FALSE]
    /\ tickLog' = EmptyLog
    /\ UNCHANGED <<worldVars, isPaused, clock, outsideEngine>>

\* levelManager.loadLevel(level, index), of the level loaded before
LoadWhileInFlight ==
    /\ ReturnEvent
    /\ WorldBecomes(LoadLevel(EngineWorld, level.currentLevel))
    /\ clock' = [clock EXCEPT !.events = @ + 1]
    /\ UNCHANGED <<isPaused, input, outsideEngine>>

\* engine.despawn(id), of a projectile in the registry
DespawnProjectile ==
    /\ ReturnEvent
    /\ \E i \in 1 .. Len(registry) :
          /\ heap[registry[i].ref].kind = "Projectile"
          /\ WorldBecomes(Despawn(EngineWorld, registry[i].id))
    /\ clock' = [clock EXCEPT !.events = @ + 1]
    /\ UNCHANGED <<isPaused, input, outsideEngine>>

NextReturn ==
    \/ ReturnTick
    \/ PressMouse
    \/ ReleaseMouse
    \/ LoadWhileInFlight
    \/ DespawnProjectile

SpecReturn == InitReturn /\ [][NextReturn]_vars

\* The host keeps calling the frame callback: there is always another tick
AnotherReturnTick == clock' = [clock EXCEPT !.ticks = TickCount(@)]
SpecReturnLive == SpecReturn /\ WF_clock(AnotherReturnTick)

-----------------------------------------------------------------------------
(* Claims about the GameLoop *)

Updates(log) == SelectSeq(log, LAMBDA c : c.call = "update")
Renders(log) == SelectSeq(log, LAMBDA c : c.call = "render")

\* C2: every run of the loop body calls update k >= 0 times, each with
\* dt = FIXED_TIMESTEP, then render exactly once, as the last call, with
\* alpha = accumulator / FIXED_TIMESTEP; and between frames
\* 0 <= accumulator < FIXED_TIMESTEP, so that 0 <= alpha < 1.
C2_FrameShape ==
    /\ 0 <= accumulator /\ accumulator < FIXED_TIMESTEP
    /\ frameLog # <<>> =>
          /\ Len(Renders(frameLog)) = 1
          /\ frameLog[Len(frameLog)] = RenderCall(accumulator)
          /\ \A i \in 1 .. Len(frameLog) - 1 : frameLog[i] = UpdateCall
          /\ frameLog[Len(frameLog)].num >= 0
          /\ frameLog[Len(frameLog)].num < frameLog[Len(frameLog)].den

\* A frame that performed several updates and rendered with a leftover.
C2_Witness ==
    /\ frameLog # <<>>
    /\ Len(Updates(frameLog)) >= 2
    /\ accumulator > 0

\* C3: the elapsed time added per frame is at most MAX_FRAME_TIME, so a frame
\* never performs more than 15 update calls.
C3_UpdatesPerFrame ==
    Len(Updates(frameLog)) <= 15

\* A frame after a stall longer than MAX_FRAME_TIME, which ran the full 15.
C3_Witness ==
    /\ Len(Updates(frameLog)) = 15
    /\ Len(frameLog) = 16

-----------------------------------------------------------------------------
(* Claims about the WeaponSystem *)

\* C8: between a weapon's registration or switch and the next one, a fire that
\* returns a non-empty batch comes at least 1/fireRate of update time after the
\* previous such fire of the same owner; equivalently a fire made less than
\* 1/fireRate after a non-empty one returns an empty batch.
C8_FireRateLimit ==
    (lastOp.op = "fire" /\ lastOp.gap >= 0) =>
        (lastOp.ok =>
            lastOp.gap >= FireInterval(weaponStates[lastOp.owner].weapon))

\* A fire refused by the cooldown alone, some update time after the last shot.
C8_Witness ==
    /\ lastOp.op = "fire" /\ ~lastOp.ok /\ lastOp.gap > 0
    /\ ~lastOp.wasReloading
    /\ weaponStates[lastOp.owner].currentAmmo > 0
    /\ weaponStates[lastOp.owner].fireCooldown > 0
    /\ lastOp.gap < FireInterval(weaponStates[lastOp.owner].weapon)

\* C9: after the fire that takes currentAmmo to 0, while the update time since
\* then is below reloadTime the magazine stays empty, isReloading stays true, no
\* refill has happened and every fire returns an empty batch; the update at
\* which that time reaches reloadTime sets currentAmmo to magazineSize and
\* isReloading to false, and it is the only refill of that reload.
C9_Reload ==
    \A id \in DOMAIN wHist :
        LET h == wHist[id]
            st == weaponStates[id]
            rt == st.weapon.reloadTime
        IN  h.reloadKind = "auto" =>
              /\ h.reloadElapsed < rt =>
                    /\ st.currentAmmo = 0 /\ st.isReloading /\ h.refills = 0
                    /\ (lastOp.op = "fire" /\ lastOp.owner = id /\ ~lastOp.drained)
                          => ~lastOp.ok
              /\ h.reloadElapsed >= rt =>
                    /\ h.refills = 1
                    /\ h.refillAt >= rt
                    /\ h.refillAt - FIXED_TIMESTEP < rt
              /\ id \in lastOp.refilled =>
                    /\ st.currentAmmo = st.weapon.magazineSize
                    /\ ~st.isReloading

\* The update that ends the reload begun by the last round of a magazine.
C9_Witness ==
    \E id \in DOMAIN wHist :
        /\ wHist[id].reloadKind = "auto"
        /\ wHist[id].refills = 1
        /\ lastOp.op = "update" /\ id \in lastOp.refilled
        /\ wHist[id].reloadElapsed = weaponStates[id].weapon.reloadTime
        /\ weaponStates[id].currentAmmo = weaponStates[id].weapon.magazineSize

\* C10: from a freshly registered weapon, the magazine holds magazineSize minus
\* the number of non-empty fires, so the magazineSize-th of them and none before
\* it empties the magazine; the fire that empties it leaves isReloading true and
\* reloadTimer equal to reloadTime (12 shots and 1.5 s for the Pistol).
C10_MagazineDrain ==
    \A id \in DOMAIN wHist :
        LET h == wHist[id]
            st == weaponStates[id]
        IN  h.fresh =>
              /\ st.currentAmmo = st.weapon.magazineSize - h.shots
              /\ st.isReloading <=> h.shots = st.weapon.magazineSize
              /\ (lastOp.op = "fire" /\ lastOp.owner = id /\ lastOp.ok
                    /\ h.shots = st.weapon.magazineSize)
                   => /\ st.isReloading
                      /\ st.reloadTimer = st.weapon.reloadTime
              /\ (st.weapon = WEAPON_PISTOL /\ st.isReloading) => h.shots = 12

\* The twelfth shot of a fresh Pistol.
C10_Witness ==
    \E id \in DOMAIN wHist :
        /\ wHist[id].fresh /\ wHist[id].shots = 12
        /\ weaponStates[id].weapon = WEAPON_PISTOL
        /\ lastOp.op = "fire" /\ lastOp.ok /\ lastOp.owner = id
        /\ weaponStates[id].currentAmmo = 0
        /\ weaponStates[id].isReloading
        /\ 2 * weaponStates[id].reloadTimer = 3 * UnitsPerSecond

\* C11: every weapon state holds 0 <= currentAmmo <= magazineSize of the
\* weapon definition it holds, after any calls of registerWeapon, fire,
\* update, startReload and switchWeapon.
C11_AmmoInRange ==
    \A id \in DOMAIN weaponStates :
        /\ 0 <= weaponStates[id].currentAmmo
        /\ weaponStates[id].currentAmmo <= weaponStates[id].weapon.magazineSize

\* A fire on an empty magazine under reload, which returns nothing and
\* leaves currentAmmo at 0.
C11_Witness ==
    \E id \in DOMAIN weaponStates :
        /\ lastOp.op = "fire" /\ lastOp.owner = id /\ ~lastOp.ok
        /\ lastOp.wasReloading
        /\ weaponStates[id].currentAmmo = 0
        /\ weaponStates[id].reloadTimer < weaponStates[id].weapon.reloadTime

\* The fire and startReload calls that the code rejects
FireRejected(ws, id) ==
    \/ id \notin DOMAIN ws
    \/ ws[id].isReloading
    \/ ws[id].fireCooldown > 0
    \/ ws[id].currentAmmo = 0
ReloadRejected(ws, id) ==
    \/ id \notin DOMAIN ws
    \/ ws[id].isReloading
    \/ ws[id].currentAmmo = ws[id].weapon.magazineSize

\* C12: fire for an owner without a state, reloading, with fireCooldown > 0
\* or with currentAmmo = 0 returns an empty batch, and startReload for an
\* owner without a state, already reloading or with a full magazine returns
\* false; in both cases the map of weapon states is what it was before the
\* call.
C12_RejectedIsNoOp ==
    /\ (lastOp.op = "fire" /\ FireRejected(lastOp.before, lastOp.owner)) =>
          /\ lastOp.batchLen = 0
          /\ weaponStates = lastOp.before
    /\ (lastOp.op = "startReload" /\ ReloadRejected(lastOp.before, lastOp.owner)) =>
          /\ ~lastOp.ok
          /\ weaponStates = lastOp.before

\* A startReload refused because the owner is already reloading, part of
\* the way through, while another owner holds a state.
C12_Witness ==
    /\ lastOp.op = "startReload" /\ ~lastOp.ok
    /\ lastOp.owner \in DOMAIN lastOp.before
    /\ lastOp.before[lastOp.owner].isReloading
    /\ lastOp.before[lastOp.owner].reloadTimer
          < lastOp.before[lastOp.owner].weapon.reloadTime
    /\ DOMAIN lastOp.before = CallOwners

\* C13: switchWeapon(owner, newDef), whatever the owner's state was, leaves
\* the owner with weapon = newDef, a full magazine, fireCooldown = 0,
\* isReloading = false and reloadTimer = 0, and leaves every other owner's
\* state as it was; and update never refills or changes the ammunition of a
\* state that is not reloading, so the cancelled reload does not complete.
C13_SwitchResets ==
    /\ lastOp.op = "switch" =>
          /\ DOMAIN weaponStates = DOMAIN lastOp.before \cup {lastOp.owner}
          /\ weaponStates[lastOp.owner].weapon = lastOp.def
          /\ weaponStates[lastOp.owner].currentAmmo = lastOp.def.magazineSize
          /\ weaponStates[lastOp.owner].fireCooldown = 0
          /\ ~weaponStates[lastOp.owner].isReloading
          /\ weaponStates[lastOp.owner].reloadTimer = 0
          /\ \A other \in DOMAIN lastOp.before \ {lastOp.owner} :
                weaponStates[other] = lastOp.before[other]
    /\ lastOp.op = "update" =>
          \A id \in DOMAIN lastOp.before :
              ~lastOp.before[id].isReloading =>
                  /\ ~weaponStates[id].isReloading
                  /\ weaponStates[id].reloadTimer = lastOp.before[id].reloadTimer
                  /\ weaponStates[id].currentAmmo = lastOp.before[id].currentAmmo

\* A switch made part of the way through a reload, while the other owner
\* is in its cooldown.
C13_Witness ==
    /\ lastOp.op = "switch"
    /\ lastOp.owner \in DOMAIN lastOp.before
    /\ lastOp.before[lastOp.owner].isReloading
    /\ lastOp.before[lastOp.owner].reloadTimer
          < lastOp.before[lastOp.owner].weapon.reloadTime
    /\ \E other \in DOMAIN lastOp.before \ {lastOp.owner} :
          lastOp.before[other].fireCooldown > 0
-----------------------------------------------------------------------------
(* Claims about collision dispatch *)

\* The references a pass scanned, and how the objects stood when it began
Scanned == {tickLog.scanned[i] : i \in 1 .. Len(tickLog.scanned)}
AtDetect(r) == tickLog.atDetect[r]

IsTarget(e) == e.kind \in {"Player", "Enemy"}

\* An active projectile p and an active player or enemy t whose boxes overlap
Struck(p, t) ==
    /\ AtDetect(p).kind = "Projectile" /\ AtDetect(p).active
    /\ IsTarget(AtDetect(t)) /\ AtDetect(t).active
    /\ Overlaps(GetBounds(AtDetect(p)), GetBounds(AtDetect(t)))

HitsOf(p, t) ==
    Len(SelectSeq(tickLog.hits, LAMBDA h : h.projectile = p /\ h.target = t))

\* No third active entity of the pass overlaps p or t
Alone(p, t) ==
    \A q \in Scanned \ {p, t} :
        ~ /\ AtDetect(q).active
          /\ \/ Overlaps(GetBounds(AtDetect(q)), GetBounds(AtDetect(p)))
             \/ Overlaps(GetBounds(AtDetect(q)), GetBounds(AtDetect(t)))

\* C5 (as the claim states it): after a pass, every active projectile that
\* overlapped a player or enemy other than its owner has damaged that target
\* exactly once, by its damage, and is inactive, whichever of the two came first
\* in the list.
C5_DamageOncePerPass ==
    \A p, t \in Scanned :
        (Struck(p, t) /\ AtDetect(p).owner # AtDetect(t).id /\ Alone(p, t)) =>
            /\ HitsOf(p, t) = 1
            /\ ~heap[p].active
            /\ heap[t].health = Max(0, AtDetect(t).health - AtDetect(p).damage)

\* C6 (as the claim states it): every callback invocation passes the entity
\* carrying the registration's tagA first and the one carrying tagB second.
C6_RegistrationOrder ==
    \A k \in 1 .. Len(tickLog.calls) :
        LET c == tickLog.calls[k] IN
        /\ HasTag(AtDetect(c.first), c.tagA)
        /\ HasTag(AtDetect(c.second), c.tagB)

\* C7: a pass never applies a projectile's damage to the entity whose id is the
\* projectile's owner, in either order of the two in the list; when no third
\* entity touches the two, the owner's health and active flag and the
\* projectile's active flag are what they were before the pass.
C7_OwnerNeverHit ==
    \A p, t \in Scanned :
        (Struck(p, t) /\ AtDetect(p).owner = AtDetect(t).id) =>
            /\ HitsOf(p, t) = 0
            /\ Alone(p, t) =>
                  /\ heap[t].health = AtDetect(t).health
                  /\ heap[t].active
                  /\ heap[p].active

\* A pass in which the callback was called on (projectile, owner) and declined.
C7_Witness ==
    \E p, t \in Scanned :
        /\ Struck(p, t) /\ AtDetect(p).owner = AtDetect(t).id /\ Alone(p, t)
        /\ \E k \in 1 .. Len(tickLog.calls) :
              tickLog.calls[k].first = p /\ tickLog.calls[k].second = t
        /\ heap[t].health = AtDetect(t).health /\ heap[p].active

-----------------------------------------------------------------------------
(* Claims about Engine.update *)

Ran == tickLog.update = "ran"
Registered == {registry[i].ref : i \in 1 .. Len(registry)}
RegisteredBefore ==
    {tickLog.before.registry[i].ref : i \in 1 .. Len(tickLog.before.registry)}
ScannedPairs ==
    {<<tickLog.scanned[i], tickLog.scanned[j]>> :
        i \in 1 .. Len(tickLog.scanned), j \in 1 .. Len(tickLog.scanned)}
Contacts == {tickLog.contacts[i] : i \in 1 .. Len(tickLog.contacts)}
\* The bounds of the two objects overlap in the heap hp
OverlapIn(hp, pair) == Overlaps(GetBounds(hp[pair[1]]), GetBounds(hp[pair[2]]))
HitProjectiles == {tickLog.hits[i].projectile : i \in 1 .. Len(tickLog.hits)}
HitTargets == {tickLog.hits[i].target : i \in 1 .. Len(tickLog.hits)}
Expired == {tickLog.expired[i] : i \in 1 .. Len(tickLog.expired)}

C1_WitnessSweep ==
    /\ Ran
    /\ \E i \in 1 .. Len(tickLog.hits) :
          /\ tickLog.hits[i].projectile \in RegisteredBefore
          /\ tickLog.hits[i].target \in RegisteredBefore
          /\ ~heap[tickLog.hits[i].target].active

\* C4: when a non-paused Engine.update has returned, every entity in the
\* registry is active; an entity that was registered and active when the
\* update began and is inactive now (its lifetime ran out, or a collision
\* callback's damage killed it) is not in the registry.
C4_NoInactiveRegistered ==
    Ran =>
        /\ \A i \in 1 .. Len(registry) : heap[registry[i].ref].active
        /\ \A r \in RegisteredBefore :
              (tickLog.before.heap[r].active /\ ~heap[r].active)
                 => r \notin Registered
        /\ \A r \in Expired \cup HitProjectiles : r \notin Registered

\* An update in which the lifetime of a registered projectile ran out.
C4_Witness ==
    /\ Ran
    /\ \E r \in Expired \cap RegisteredBefore :
          /\ tickLog.before.heap[r].active
          /\ ~heap[r].active
          /\ heap[r].lifetime <= 0

\* An update in which damage dealt by a collision callback killed a
\* registered player.
C4_WitnessDeath ==
    /\ Ran
    /\ \E r \in HitTargets \cap RegisteredBefore :
          /\ tickLog.before.heap[r].active
          /\ ~heap[r].active
          /\ heap[r].health = 0

-----------------------------------------------------------------------------
(* Claims about weapon states and the registry *)

RegisteredIds == {registry[i].id : i \in 1 .. Len(registry)}
\* The ids Engine.spawn has given out
IssuedIds == 1 .. nextEntityId - 1

\* C14: the weapon system holds no WeaponState under the id of an entity
\* that was spawned and has left the registry (by despawn, by the sweep
\* after its death, or by a level unload).
C14_NoStateForDeparted ==
    \A id \in DOMAIN weaponStates :
        id \in IssuedIds => id \in RegisteredIds

-----------------------------------------------------------------------------
(* Claims about the PhysicsSystem *)

PhysicsRan == tickLog.update = "physics"
\* The physics-tagged entities the update was given
Bodies ==
    {r \in DOMAIN tickLog.before.heap :
        tickLog.before.heap[r].active /\ HasTag(tickLog.before.heap[r], "physics")}
Before(r) == tickLog.before.heap[r]
\* The entity after gravity, friction and the move, and its box then
Moved(r) == Integrate(Before(r), FIXED_TIMESTEP)
PostMoveBox(r) == GetBounds(Moved(r))
\* The entity and the grounded flag after the first k platforms of the list
AfterPlatforms(r, k) ==
    AgainstPlatforms([e |-> Moved(r), grounded |-> FALSE], PostMoveBox(r),
                     Before(r).position.y, SubSeq(platforms, 1, k), 1)
Touches(r, k) == Overlaps(PostMoveBox(r), PlatformBounds(platforms[k]))
\* Before the move the bottom edge was at or above the platform's top
WasAbove(r, k) ==
    Before(r).position.y + Before(r).size.y <= PlatformBounds(platforms[k]).y
\* Platform k is one-way and the entity comes onto it from above, not rising
LandsOn(r, k) ==
    /\ platforms[k].oneWay
    /\ WasAbove(r, k)
    /\ Moved(r).velocity.y >= 0
    /\ Touches(r, k)
Landed(r, k) ==
    /\ heap[r].velocity.y = 0
    /\ heap[r].position.y + heap[r].size.y = PlatformBounds(platforms[k]).y
    /\ HasTag(heap[r], "grounded")

C16_OneWayFromAboveOnly ==
    PhysicsRan =>
        \A r \in Bodies : \A k \in 1 .. Len(platforms) :
            (/\ platforms[k].oneWay
             /\ \/ ~WasAbove(r, k)
                \/ Moved(r).velocity.y < 0
                \/ AfterPlatforms(r, k - 1).e.velocity.y < 0)
                => /\ AfterPlatforms(r, k) = AfterPlatforms(r, k - 1)
                   /\ (\A j \in 1 .. Len(platforms) : j # k => ~Touches(r, j))
                         => heap[r] = RemoveTag(Moved(r), "grounded")

\* An entity moving down whose box overlaps a one-way platform after the
\* move but whose bottom edge was below the platform's top before it: it
\* passes, and loses the grounded tag it had.
C16_Witness ==
    /\ PhysicsRan
    /\ \E r \in Bodies : \E k \in 1 .. Len(platforms) :
          /\ platforms[k].oneWay
          /\ Touches(r, k)
          /\ ~WasAbove(r, k)
          /\ Moved(r).velocity.y > 0
          /\ HasTag(Before(r), "grounded")
          /\ heap[r].position = Moved(r).position
          /\ heap[r].velocity = Moved(r).velocity
          /\ ~HasTag(heap[r], "grounded")

\* The resolution of solid platform k pushed the entity up onto its top
PushedOntoTop(r, k) ==
    LET s == AfterPlatforms(r, k - 1)
        pb == PlatformBounds(platforms[k])
        e1 == ResolveCollision(s.e, PostMoveBox(r), pb)
    IN  /\ ~platforms[k].oneWay
        /\ Touches(r, k)
        /\ e1.position.x = s.e.position.x
        /\ e1.position.y = pb.y - PostMoveBox(r).height
\* Platform k landed the entity from above
LandedBy(r, k) ==
    /\ platforms[k].oneWay
    /\ Touches(r, k)
    /\ WasAbove(r, k)
    /\ AfterPlatforms(r, k - 1).e.velocity.y >= 0

\* C17: after a physics tick the entity has the grounded tag exactly when
\* a one-way platform landed it from above or the resolution of a solid
\* platform pushed it up onto that platform's top in the tick.
C17_GroundedIffOnTop ==
    PhysicsRan =>
        \A r \in Bodies :
            HasTag(heap[r], "grounded") <=>
                \E k \in 1 .. Len(platforms) : LandedBy(r, k) \/ PushedOntoTop(r, k)

-----------------------------------------------------------------------------
(* Claims about the enemy AI *)

AIRan == tickLog.update = "ai"
\* The enemies updateAI was called on, and what they and the player were
Updated ==
    {level.enemies[k] : k \in 1 .. Len(level.enemies)}
        \cap {r \in DOMAIN tickLog.before.heap :
                /\ tickLog.before.heap[r].active
                /\ level.player \in DOMAIN tickLog.before.heap
                /\ tickLog.before.heap[level.player].active}
EnemyWas(r) == tickLog.before.heap[r]
PlayerWas == tickLog.before.heap[level.player]
Sighted(r) == DistanceWithin(EnemyWas(r).position, PlayerWas.position,
                             EnemyWas(r).sightRadius)
InAttackRange(r) == DistanceWithin(EnemyWas(r).position, PlayerWas.position,
                                   EnemyWas(r).attackRange)
OutOfSight(r) == DistanceBeyondHalfMore(EnemyWas(r).position, PlayerWas.position,
                                        EnemyWas(r).sightRadius)

\* C18: an enemy in Chase becomes Patrol in an updateAI call exactly when
\* the distance to the player is greater than 1.5 x sightRadius; at a
\* distance above attackRange and at most 1.5 x sightRadius it stays in
\* Chase.
C18_ChaseHysteresis ==
    AIRan =>
        \A r \in Updated :
            EnemyWas(r).aiState = "chase" =>
                /\ heap[r].aiState = "patrol" <=> OutOfSight(r)
                /\ (~InAttackRange(r) /\ ~OutOfSight(r)) => heap[r].aiState = "chase"

\* An enemy in Chase with the player level with it at 1.2 x sightRadius
\* (480 px, out of sight of a waiting enemy): it stays in Chase and runs at
\* the player.
C18_Witness ==
    /\ AIRan
    /\ \E r \in Updated :
          /\ EnemyWas(r).aiState = "chase"
          /\ PlayerWas.position.y = EnemyWas(r).position.y
          /\ 10 * (PlayerWas.position.x - EnemyWas(r).position.x)
                = 12 * EnemyWas(r).sightRadius * UnitsPerPixel
          /\ ~Sighted(r)
          /\ heap[r].aiState = "chase"
          /\ heap[r].velocity.x = PerSecond(MOVE_SPEED)

AIEdges ==
    {<<"idle", "chase">>, <<"idle", "patrol">>, <<"patrol", "chase">>,
     <<"chase", "patrol">>, <<"chase", "attack">>, <<"attack", "chase">>}

\* C19: an updateAI call leaves the AI state as it was or takes one of the
\* edges Idle->Chase, Idle->Patrol, Patrol->Chase, Chase->Patrol,
\* Chase->Attack, Attack->Chase; no call ends in Idle unless it began there.
C19_Edges ==
    AIRan =>
        \A r \in Updated :
            /\ \/ heap[r].aiState = EnemyWas(r).aiState
               \/ <<EnemyWas(r).aiState, heap[r].aiState>> \in AIEdges
            /\ heap[r].aiState = "idle" => EnemyWas(r).aiState = "idle"

\* An enemy that began in Idle, in Patrol with the player inside its attack
\* range: the call takes it to Chase, not to Attack.
C19_Witness ==
    /\ AIRan
    /\ \E r \in Updated :
          /\ Len(EnemyWas(r).patrolPoints) = 1
          /\ EnemyWas(r).aiState = "patrol"
          /\ InAttackRange(r)
          /\ heap[r].aiState = "chase"

\* C20: an enemy constructed with no patrol point or one (its patrolPoints
\* then has one element) is never in Patrol.
C20_NeverPatrolsWithoutRoute ==
    \A k \in 1 .. Len(level.enemies) :
        Len(heap[level.enemies[k]].patrolPoints) <= 1
            => heap[level.enemies[k]].aiState # "patrol"


-----------------------------------------------------------------------------
(* Claims about the game tick *)

\* The enemy of the level and the player
TheEnemy == heap[level.enemies[1]]
ThePlayer == heap[level.player]
PlayerOutOfSight ==
    ~DistanceWithin(TheEnemy.position, ThePlayer.position, TheEnemy.sightRadius)
HasRoute == Len(TheEnemy.patrolPoints) = 2
AtFirstWaypoint ==
    HasRoute => DistanceBelow(TheEnemy.position, TheEnemy.patrolPoints[1], 10)
AtSecondWaypoint ==
    HasRoute => DistanceBelow(TheEnemy.position, TheEnemy.patrolPoints[2], 10)
BetweenWaypoints ==
    /\ TheEnemy.position.x >= Min(TheEnemy.patrolPoints[1].x, TheEnemy.patrolPoints[2].x)
    /\ TheEnemy.position.x <= Max(TheEnemy.patrolPoints[1].x, TheEnemy.patrolPoints[2].x)
PatrolsInside == HasRoute => (TheEnemy.aiState = "patrol" /\ BetweenWaypoints)
\* The waypoint index moves on by one, after a second of waiting at the waypoint
IndexStep ==
    LET r == level.enemies[1] IN
    (HasRoute /\ heap'[r].currentPatrolIndex # heap[r].currentPatrolIndex) =>
        /\ heap'[r].currentPatrolIndex
              = (heap[r].currentPatrolIndex + 1) % Len(heap[r].patrolPoints)
        /\ heap[r].patrolWaitTimer + FIXED_TIMESTEP >= PATROL_WAIT_TIME
        /\ DistanceBelow(heap'[r].position,
                         heap[r].patrolPoints[heap[r].currentPatrolIndex + 1], 10)

\* C21: with the player out of sight at every tick (it is, in every state of
\* the game specification: the player never moves and the enemy's route stays
\* beyond the sight radius), an enemy with two waypoints is always in Patrol
\* with its x between the waypoints' x, its waypoint index moves on by one
\* (cyclically) only after 1.0 s of waiting within 10 px of the waypoint, and
\* it is at each waypoint again and again.
C21_PatrolsForever ==
    /\ [](PlayerOutOfSight /\ PatrolsInside)
    /\ [][IndexStep]_vars
    /\ []<>AtFirstWaypoint
    /\ []<>AtSecondWaypoint


\* One call of updateAI that finds the enemy of the level in Attack and leaves
\* it there has run doAttack
Attacking == TheEnemy.aiState = "attack" /\ heap'[level.enemies[1]].aiState = "attack"
AttackStep ==
    LET r == level.enemies[1]
        atCall == IF heap[r].attackCooldown > 0
                  THEN heap[r].attackCooldown - FIXED_TIMESTEP
                  ELSE heap[r].attackCooldown
        fires == EnemyFired(tickLog', heap')
    IN  /\ Attacking => heap'[r].velocity.x = 0
        /\ fires => /\ Attacking
                    /\ atCall <= 0
                    /\ heap'[r].attackCooldown = ATTACK_COOLDOWN_TIME
                    /\ wHist.shots > 0 => wHist.since + FIXED_TIMESTEP >= ATTACK_COOLDOWN_TIME
        /\ (Attacking /\ atCall <= 0) => fires

\* C22: while the enemy is in Attack with the player in range, every AI tick
\* sets its horizontal velocity to 0; it fires only in a tick that finds
\* attackCooldown <= 0 and then attackCooldown is 2.0 s; two consecutive shots
\* are at least 2.0 s of simulated time apart; and every attempt (a tick in
\* Attack with attackCooldown <= 0) does fire: the weapon is ready.
C22_AttackCadence == [][AttackStep]_vars
\* The thirteenth shot: the first after the reload of a magazine of twelve
C22_Witness == wHist.shots = 13 /\ wHist.since = 0


\* The particles in use
ActiveParticles(ps) == Cardinality({i \in 1 .. Len(ps) : ps[i].active})
\* What the last call asked for was granted
AcquireGranted ==
    tickLog'.update = "acquire" =>
        LET ref == AcquiredRef(EngineWorld) IN
        /\ ref \in DOMAIN heap'
        /\ heap'[ref].active
        /\ SeqHas(pool'.active, ref)
        /\ Len(pool.free) = 0 => Len(heap') = Len(heap) + 1
ParticlesGranted ==
    /\ tickLog'.update = "spawnMuzzleFlash" =>
           ActiveParticles(particles') = ActiveParticles(particles) + 8
    /\ tickLog'.update = "spawnHitSparks" =>
           ActiveParticles(particles') = ActiveParticles(particles) + 12

\* C23: a pool never refuses a spawn: acquire returns an active instance (a
\* new one when the free list is empty), and every particle a spawn call
\* asks for becomes an active particle, also when all the particles the
\* system allocated are in use.
C23_NeverRefuses == [][AcquireGranted /\ ParticlesGranted]_vars
\* The part of it about the projectile pool alone
AcquireNeverRefuses == [][AcquireGranted]_vars


\* The instances of the projectile pool: in use and free
Total(p) == Len(p.active) + Len(p.free)
ExpiredOf(p, h) == SelectSeq(p.active, LAMBDA r : ~h[r].active)
NoRepeats(s) == \A i, j \in 1 .. Len(s) : s[i] = s[j] => i = j
\* Every instance the pool has constructed is in exactly one of its two lists
PoolSound ==
    /\ NoRepeats(pool.free \o pool.active)
    /\ {pool.free[i] : i \in 1 .. Len(pool.free)}
         \cup {pool.active[i] : i \in 1 .. Len(pool.active)}
       = {r \in DOMAIN heap : heap[r].kind = "Projectile"}
    /\ Total(pool) = pool.nextId - NewEngine.pool.nextId + InitialPoolSize
PoolStep ==
    LET acquires == tickLog'.update \in {"acquire", "spawnProjectile"} IN
    /\ Total(pool') >= Total(pool)
    /\ Total(pool') > Total(pool) =>
          acquires /\ Len(pool.free) = 0 /\ Total(pool') = Total(pool) + 1
    /\ (acquires /\ Len(pool.free) > 0) =>
          Total(pool') = Total(pool) /\ Len(pool'.free) = Len(pool.free) - 1
    /\ tickLog'.update = "pool.update" =>
          /\ Len(pool'.free) = Len(pool.free) + Len(ExpiredOf(pool, heap))
          /\ ExpiredOf(pool', heap') = << >>
    /\ tickLog'.update = "pool.clear" =>
          /\ Len(pool'.free) = Total(pool)
          /\ Len(pool'.active) = 0
    /\ tickLog'.update = "update" =>
          /\ Total(pool') = Total(pool)
          /\ ExpiredOf(pool', heap') = << >>
    /\ tickLog'.update \notin {"acquire", "spawnProjectile", "pool.update", "pool.clear",
                                "update"} =>
          pool' = pool

\* C24: the pool's total (in use + free) never decreases and grows, by one,
\* only when acquire finds the free list empty; an acquire with a free
\* instance takes one from the free list and every projectile that has expired
\* is back in the free list after the pool's update: N acquisitions from N
\* free instances followed by their expiry leave the free count and the total
\* as they were.
C24_PoolReuse == []PoolSound /\ [][PoolStep]_vars
\* Both instances of the initial pool were acquired, have run out of lifetime
\* and are free again
C24_Witness ==
    /\ tickLog.update = "pool.update"
    /\ Len(pool.free) = InitialPoolSize
    /\ Total(pool) = InitialPoolSize
    /\ \A i \in 1 .. Len(pool.free) :
          heap[pool.free[i]].maxLifetime > 0 /\ heap[pool.free[i]].lifetime <= 0


\* The projectiles the registry held when the last update began and that
\* update took to the end of their lifetime
RanOut ==
    {tickLog.before.registry[k].ref : k \in
        {j \in 1 .. Len(tickLog.before.registry) :
            LET b == tickLog.before.heap[tickLog.before.registry[j].ref] IN
            /\ b.kind = "Projectile"
            /\ b.active
            /\ b.lifetime - FIXED_TIMESTEP <= 0}}

\* C25: between ticks every active projectile of the registry has
\* 0 < lifetime <= maxLifetime, and a projectile whose lifetime reached 0 or
\* less in the last update is inactive.
C25_LifetimeInRange ==
    /\ \A k \in 1 .. Len(registry) :
          LET e == heap[registry[k].ref] IN
          (e.kind = "Projectile" /\ e.active) =>
              (0 < e.lifetime /\ e.lifetime <= e.maxLifetime)
    /\ tickLog.update = "ran" => \A r \in RanOut : ~heap[r].active
\* A projectile has just run out of its lifetime: it is inactive, at or below
\* zero, and no longer in the registry
C25_Witness ==
    /\ tickLog.update = "ran"
    /\ \E r \in RanOut :
          /\ heap[r].lifetime <= 0
          /\ ~heap[r].active
          /\ ~SeqHas(Refs(registry), r)


\* One call of Engine.update
Updating == clock'.ticks = clock.ticks + 1
FullTick ==
    <<"entities", "physics", "weapons", "particles", "pool", "collisions", "sweep">>
PausedStep ==
    /\ (Updating /\ isPaused') =>
          /\ UNCHANGED worldVars
          /\ tickLog'.phases = << >>
          /\ input' = [input EXCEPT !.prev = input.keys]
    /\ (Updating /\ isPaused /\ ~IsKeyPressed("escape")) => isPaused'
    /\ (Updating /\ ~isPaused /\ IsKeyPressed("escape")) => isPaused'
    /\ (Updating /\ isPaused /\ IsKeyPressed("escape")) =>
          /\ ~isPaused'
          /\ tickLog'.phases = FullTick

\* C26: a call of Engine.update that finds the engine paused, or in which an
\* Escape press pauses it, runs no step of the tick and leaves the registry,
\* the entities, the weapon states, the pool and the particles as they were;
\* it only records the keys that are down.  A call that finds the engine
\* paused and an Escape press unpauses it and runs the full tick.
C26_PausedUpdateIsIdle == [][PausedStep]_vars
\* The first update, made after setPaused(true) and an Escape press, has
\* unpaused the engine and run its tick
C26_Witness ==
    /\ clock = [ticks |-> 1, events |-> 2]
    /\ ~isPaused
    /\ "escape" \in input.prev
    /\ tickLog.phases = FullTick


\* A game tick that finds the engine paused and leaves it paused changes
\* nothing of the entities, the weapons and the registry
PausedTickIdle ==
    (Updating /\ isPaused /\ isPaused') =>
        /\ registry' = registry
        /\ \A k \in 1 .. Len(registry) :
              LET r == registry[k].ref IN
              /\ heap'[r].position = heap[r].position
              /\ heap'[r].velocity = heap[r].velocity
              /\ heap[r].kind = "Enemy" =>
                    /\ heap'[r].aiState = heap[r].aiState
                    /\ heap'[r].attackCooldown = heap[r].attackCooldown
        /\ \A id \in DOMAIN weaponStates :
              weaponStates'[id].currentAmmo = weaponStates[id].currentAmmo

\* C27: while the game is paused, a game tick (Engine.update, then
\* LevelManager.update) changes no entity's position or velocity, no enemy's
\* AI state or attack cooldown and no weapon's ammunition, and adds no entity
\* to the registry.
C27_PausedGameStandsStill == [][PausedTickIdle]_vars
\* Paused ticks in which, one by one, the enemy changes its AI state and then
\* fires: weaker statements that fail as well
PausedEnemyKeepsState ==
    [][(Updating /\ isPaused /\ isPaused') =>
          heap'[level.enemies[1]].aiState = TheEnemy.aiState]_vars
PausedNoShot == [][(Updating /\ isPaused /\ isPaused') => registry' = registry]_vars
\* The statement for the shipped level alone
PausedLevel1StandsStill ==
    [][level.currentLevel = LEVEL_1 => PausedTickIdle]_vars


\* The ids Engine.spawn has returned so far, in the order of the calls
Issued == wHist
\* C28: the ids Engine.spawn assigns are strictly increasing over the life of
\* the engine, whatever spawn, despawn, clear and update calls are made: no
\* id is assigned twice, also after its entity was despawned or the registry
\* was cleared.
C28_IdsNeverReused ==
    /\ \A i, j \in 1 .. Len(Issued) : i < j => Issued[i] < Issued[j]
    /\ \A i \in 1 .. Len(Issued) : Issued[i] < nextEntityId
    /\ \A k \in 1 .. Len(registry) :
          \E i \in 1 .. Len(Issued) : registry[k].id = Issued[i]
\* A spawn into a registry that held entities before and was emptied
C28_Witness ==
    /\ Len(Issued) >= 2
    /\ Len(registry) = 1
    /\ tickLog.update \in {"spawn", "spawnProjectile"}


\* A frame callback the host runs while the loop is stopped: a pending request
\* goes, and not by a call of stop()
StoppedFrame ==
    /\ ~isRunning /\ ~isRunning'
    /\ rafPending' # rafPending
    /\ ~(animationFrameId # 0 /\ animationFrameId' = 0)
\* A frame in which stop() was called
StoppingFrame == isRunning /\ ~isRunning' /\ rafNext' = rafNext + 1
WholeFrame ==
    LET d == Drain(accumulator + ClampFrameTime(now - lastFrameTime), <<>>)
    IN  Append(d.log, RenderCall(d.acc))

\* C29: once the loop is stopped, a host frame invokes no update and no
\* render callback and requests no further frame, until start() is called;
\* and a frame in which an update callback calls stop() still runs all its
\* updates and its render.
C29_StoppedLoopIsSilent ==
    [][/\ StoppedFrame => (frameLog' = << >> /\ rafPending' \subseteq rafPending)
       /\ StoppingFrame => frameLog' = WholeFrame]_vars
\* The frame requested at the end of a frame that was stopped from inside an
\* update callback has come and gone without a callback
C29_Witness ==
    /\ ~isRunning
    /\ animationFrameId # 0
    /\ rafPending = {}
    /\ frameLog = << >>


\* The projectiles that are in the registry, active, before and after a step
InFlight ==
    {r \in DOMAIN heap :
        /\ heap[r].kind = "Projectile"
        /\ heap[r].active /\ heap'[r].active
        /\ heap[r].velocity.speed > 0
        /\ \E k \in 1 .. Len(registry) :
              /\ registry[k].ref = r
              /\ SeqHas(registry', registry[k])}

\* C30: a projectile spawned through Engine.spawnProjectile advances by
\* velocity x dt in every tick that is not paused.  Its speed is not zero,
\* so whatever its direction it is not where it was: that consequence is
\* what is checked (a direction is held as an angle, not as components).
C30_ProjectileAdvances ==
    [][(Updating /\ ~isPaused') =>
          \A r \in InFlight : heap'[r].position # heap[r].position]_vars
\* A projectile that stays where it was spawned for as long as it lives
ProjectileNeverMoves ==
    [][\A r \in InFlight : heap'[r].position = heap[r].position]_vars

-----------------------------------------------------------------------------
(* Claims about the end of a level and about health *)

\* The enemy objects the level's load has created
SpawnedEnemies == {r \in DOMAIN heap : heap[r].kind = "Enemy"}
CompleteNow == IsLevelComplete(EngineWorld)
SaysComplete == SeqHas(wHist.emitted, "levelComplete")
SaysDeath == SeqHas(wHist.emitted, "playerDeath")
LevelTicked == clock'.ticks = clock.ticks + 1

\* A game tick notifies completion exactly when the level is complete as
\* levelManager.update returns, and always when it was complete already
NotifiesWhenComplete ==
    LevelTicked =>
        /\ SaysComplete' <=> CompleteNow'
        /\ CompleteNow => SaysComplete'

\* C31: a loaded level is complete exactly when it has at least one spawned
\* enemy and every spawned enemy is inactive; LevelManager.update notifies
\* completion in the first update after the last enemy became inactive (and
\* in no update that ends with an enemy active), and a level without enemy
\* spawns is never reported complete.
C31_LevelComplete ==
    /\ [](CompleteNow <=>
             /\ SpawnedEnemies # {}
             /\ \A r \in SpawnedEnemies : ~heap[r].active)
    /\ [](SpawnedEnemies = {} => wHist.complete = 0)
    /\ [][NotifiesWhenComplete]_vars

\* The first notification of a level with two enemies, the second of which
\* has just become inactive
C31_Witness ==
    /\ Cardinality(SpawnedEnemies) = 2
    /\ CompleteNow
    /\ SaysComplete
    /\ wHist.complete = 1

\* C38: for one loaded level, onLevelComplete is called at most once and
\* onPlayerDeath at most once, however many ticks follow.
C38_NotifiedOnce ==
    /\ wHist.complete <= 1
    /\ wHist.death <= 1

\* What the code does instead: the notifications are repeated in every tick
\* for as long as their condition holds
NotifiedEveryTick ==
    [][LevelTicked =>
          /\ wHist'.complete = wHist.complete + (IF CompleteNow' THEN 1 ELSE 0)
          /\ wHist'.death = wHist.death
                + (IF ~heap'[level'.player].active THEN 1 ELSE 0)]_vars

\* The objects that have health
Fighters == {r \in DOMAIN heap : heap[r].kind \in {"Player", "Enemy"}}
HealthInRange ==
    \A r \in Fighters : 0 <= heap[r].health /\ heap[r].health <= heap[r].maxHealth

\* C40: for Player and Enemy, after any sequence of takeDamage calls with
\* positive amounts and (for the player) heal calls, 0 <= health <= maxHealth
\* and the entity is active if and only if health > 0.
C40_HealthAndLife ==
    /\ HealthInRange
    /\ \A r \in Fighters : heap[r].active <=> heap[r].health > 0

\* What holds of the code: health stays in range, an active entity has
\* health left, and an enemy (which cannot be healed) is active exactly
\* when it has health left
AliveHasHealth ==
    /\ HealthInRange
    /\ \A r \in Fighters : heap[r].active => heap[r].health > 0
    /\ \A r \in SpawnedEnemies : heap[r].active <=> heap[r].health > 0

-----------------------------------------------------------------------------
(* Claims about the StorageManager *)

Called32 == lastOp.op # "none"
ReadFailed == "getItem" \in lastOp.failing \/ lastOp.before.kind = "unparsable"
WriteFailed == "setItem" \in lastOp.failing
StoreTroubled == lastOp.failing # {} \/ lastOp.before.kind = "unparsable"

\* A failed read is no data, and a failed write is dropped
FailuresAbsorbed ==
    /\ (ReadFailed /\ lastOp.op = "loadProgress") => lastOp.result = Null
    /\ (ReadFailed /\ lastOp.op = "isLevelUnlocked") =>
          lastOp.result = (lastOp.level = 0)
    /\ (ReadFailed /\ lastOp.op = "getBestScore") => lastOp.result = 0
    /\ (WriteFailed /\ lastOp.op \in {"saveProgress", "updateBestScore",
                                      "unlockLevel"}) =>
          wHist = lastOp.before

\* C32: no StorageManager operation raises when the store fails or holds
\* unparsable data; a failed read is treated as no data (level 0 unlocked,
\* best score 0) and a failed write is dropped.
C32_StorageNeverRaises ==
    (Called32 /\ StoreTroubled) =>
        /\ ~lastOp.raised
        /\ FailuresAbsorbed

\* What holds of the code: the operations other than clearProgress never
\* raise, and every failed read or write is absorbed as the claim says
OnlyClearRaises ==
    (Called32 /\ StoreTroubled) =>
        /\ lastOp.raised => lastOp.op = "clearProgress"
        /\ FailuresAbsorbed

-----------------------------------------------------------------------------
(* Claims about the weapon swap *)

PlayerNow == heap[level.player]

\* C33: one press of F, held down for any number of consecutive ticks,
\* advances the player's currentWeaponIndex by exactly one (modulo the
\* inventory size) and replaces the player's weapon state exactly once.
C33_SwapOncePerPress ==
    /\ wHist.swaps = wHist.served
    /\ PlayerNow.currentWeaponIndex = wHist.served % Len(ALL_WEAPONS)

\* What the code does instead: one swap in every tick that finds F down;
\* the weapon state is always that of the weapon the index names
SwapsEveryHeldTick ==
    /\ wHist.swaps = wHist.held
    /\ PlayerNow.currentWeaponIndex = wHist.held % Len(ALL_WEAPONS)
    /\ weaponStates[PlayerNow.id].weapon
          = ALL_WEAPONS[PlayerNow.currentWeaponIndex + 1]

-----------------------------------------------------------------------------
(* Claims about resting on a platform *)

\* The width by which the entity's box is over the platform
OverlapX(e, k) ==
    Min(e.position.x + e.size.x,
        PlatformBounds(platforms[k]).x + PlatformBounds(platforms[k]).width)
    - Max(e.position.x, PlatformBounds(platforms[k]).x)

\* The entity stands still on the top of platform k
RestsOn(e, k) ==
    /\ e.position.y + e.size.y = PlatformBounds(platforms[k]).y
    /\ e.velocity = Vec2(0, 0)
    /\ HasTag(e, "grounded")
    /\ OverlapX(e, k) > 0

\* The tick has left it where it was
StillRests(r) ==
    /\ heap[r].position.y = Before(r).position.y
    /\ heap[r].velocity.y = 0
    /\ HasTag(heap[r], "grounded")

\* The distance gravity moves an entity at rest in one tick
FallPerTick == Displacement(AccelStep(GRAVITY, FIXED_TIMESTEP), FIXED_TIMESTEP)

C34_WitnessOneWay ==
    /\ PhysicsRan
    /\ clock.ticks = MaxPhysicsTicks
    /\ \E r \in Bodies : \E k \in 1 .. Len(platforms) :
          /\ platforms[k].oneWay
          /\ RestsOn(Before(r), k)
          /\ OverlapX(Before(r), k) = 1
          /\ heap[r] = Before(r)

-----------------------------------------------------------------------------
(* Claims about pooled projectiles and the registry *)

RegistryRefs == {registry[i].ref : i \in 1 .. Len(registry)}
FreeRefs == {pool.free[i] : i \in 1 .. Len(pool.free)}
InUseRefs == {pool.active[i] : i \in 1 .. Len(pool.active)}

\* C35: between the calls of the game (ticks, shots, collisions, level
\* loads) no projectile is both in the pool's free list and in the
\* registry, so the instance acquire would return is not registered; no
\* object is in the registry under two ids; and every registry key is the
\* id field of the entity stored under it.
C35_FreeNotRegistered ==
    /\ FreeRefs \cap RegistryRefs = {}
    /\ AcquiredRef(EngineWorld) \notin RegistryRefs
    /\ \A i, j \in 1 .. Len(registry) :
          registry[i].ref = registry[j].ref => i = j
    /\ \A i \in 1 .. Len(registry) : heap[registry[i].ref].id = registry[i].id

\* An instance the pool was created with is in the registry, in flight,
\* and has been there before under another id
C35_Witness ==
    \E i \in 1 .. Len(registry) :
        /\ heap[registry[i].ref].kind = "Projectile"
        /\ registry[i].ref <= InitialPoolSize
        /\ heap[registry[i].ref].active
        /\ \E used \in wHist :
              used[1] = registry[i].ref /\ used[2] < registry[i].id

-----------------------------------------------------------------------------
(* Claims about the return of projectiles to the pool *)

InFlight1 == 1 \in InUseRefs
InFlight2 == 2 \in InUseRefs
Returned1 == 1 \in FreeRefs
Returned2 == 2 \in FreeRefs

\* C37: every projectile acquired from the pool is eventually back in the
\* pool's free list while ticks that are not paused keep running, also
\* when it was in flight at a clear of the registry or was despawned.
C37_EventuallyReturned ==
    /\ InFlight1 ~> Returned1
    /\ InFlight2 ~> Returned2

\* What holds: a projectile in flight is returned or leaves the registry
\* while it is active, and then stays in the active list
Dropped1 == InFlight1 /\ 1 \notin RegistryRefs /\ heap[1].active
Dropped2 == InFlight2 /\ 2 \notin RegistryRefs /\ heap[2].active
ReturnedUnlessDropped ==
    /\ InFlight1 ~> (Returned1 \/ Dropped1)
    /\ InFlight2 ~> (Returned2 \/ Dropped2)
    /\ [](Dropped1 => []Dropped1)
    /\ [](Dropped2 => []Dropped2)

-----------------------------------------------------------------------------
(* Claims about pending frame callbacks *)

\* C36: whatever the order of the start() and stop() calls, also of calls
\* made inside an update or render callback, at most one frame callback is
\* pending at any time.
C36_OnePendingFrame == Cardinality(rafPending) <= 1

\* What holds: a stop() called between frames, when the only request pending
\* is the one animationFrameId names, leaves no request pending
StopCancelsNamed ==
    [][(~isRunning' /\ isRunning /\ rafNext' = rafNext /\ rafPending \subseteq {animationFrameId})
          => rafPending' = {}]_vars

-----------------------------------------------------------------------------
(* Claims about solid platforms *)

\* The solid platforms the box b overlaps
SolidsUnder(b) ==
    {k \in 1 .. Len(platforms) :
        ~platforms[k].oneWay /\ Overlaps(b, PlatformBounds(platforms[k]))}

PhysicsRefs ==
    {registry[i].ref : i \in {j \in 1 .. Len(registry) :
                                 HasTag(heap[registry[j].ref], "physics")}}

=============================================================================
